---- MODULE Spec2Model ----
(***************************************************************************)
(* A model of the file-hosting worker (src/_worker.js): the metadata-store *)
(* bootstrap (initDatabase, validateDatabaseStructure, recreateAllTables), *)
(* the request entry point (fetch), the upload handlers and the file       *)
(* request handler (handleFileRequest), with the object bucket and the     *)
(* chat transport as blob stores.                                          *)
(*                                                                         *)
(* Strings that the handlers take apart are modelled by their parts: a     *)
(* name `<stem>.<ext>` is the pair <<stem, ext>> (stems are numbers: clock *)
(* readings for generated keys, other numbers for client file names and    *)
(* transport file ids), and a URL `https://<host>/<path>` is the record    *)
(* [host, path].  SQL NULL in an integer column is NullId (= 0, which is   *)
(* also falsy in the handlers' JavaScript tests).                          *)
(***************************************************************************)
EXTENDS Integers, Sequences, FiniteSets, TLC

VARIABLES
  env,       \* the bindings of the deployment: [bucket, tg, database]
  db,        \* the bound relational store: schema and rows
  bucket,    \* the object bucket: key -> [body, contentType]
  tg,        \* the chat transport: sequence of stored documents (file id = 100 + index)
  clock,     \* Date.now()
  uploads,   \* number of upload requests handled so far
  served,    \* number of file requests handled so far
  uploaded,  \* history: {[path, body]} of the uploads that answered with a url
  req,       \* the last file request: [path, range]
  resp,      \* the response to the last request
  boot,      \* the request in flight through fetch/initDatabase
  mem        \* the in-memory emulator of the request, when no store is bound

vars == <<env, db, bucket, tg, clock, uploads, served, uploaded, req, resp, boot, mem>>

----------------------------------------------------------------------------
(* Bounds of the model *)

MaxLen == 2        \* longest uploaded body, in bytes
MaxUploads == 2    \* upload requests per behaviour
MaxServed == 1     \* file requests per behaviour
MaxTime == 2       \* last clock reading
MaxRequests == 2   \* requests through fetch per behaviour (bootstrap model)
MaxExternal == 1   \* writes by other clients of the shared store

\* The body of the k-th upload: n bytes, each different from every other byte
\* of every upload, so that a slice names its file and its offsets.
BodyOf(k, n) == [i \in 1..n |-> 10 * k + i]

----------------------------------------------------------------------------
(* Names, content types, URLs *)

Domain == "host"
DefaultCategoryName == "default"      \* '默认分类'
NullId == 0
NoName == <<0, "">>
NullText == "NULL"                    \* SQL NULL / JavaScript null in a text column

\* String.prototype.toLowerCase on the extensions the model uses
ToLowerCase(e) == IF e = "MP4" THEN "mp4" ELSE IF e = "BIN" THEN "bin" ELSE e

\* name.split('.').pop()
ExtOf(name) == name[2]

getContentType(ext) ==
  LET lowerExt == ToLowerCase(ext)
  IN  IF lowerExt = "mp4" THEN "video/mp4"
      ELSE IF lowerExt = "png" THEN "image/png"
      ELSE "application/octet-stream"

\* `https://${config.domain}/${path}`
UrlOf(path) == [host |-> Domain, path |-> path]

\* `${now}.${ext}`
KeyOf(now, ext) == <<now, ext>>

\* file names a client may send
FileNames == {<<90, "MP4">>}

\* storage_type values a client may send with an upload
StorageTypeInputs == {"r2", "telegram", "r2_chunk"}

----------------------------------------------------------------------------
(* The relational store: schema and rows *)

Tables == <<"categories", "user_settings", "files">>
TableSet == {Tables[i] : i \in 1..Len(Tables)}

\* tableStructures: the columns verification requires, per table
tableStructures ==
  [categories |-> <<[name |-> "id", type |-> "INTEGER"],
                    [name |-> "name", type |-> "TEXT"],
                    [name |-> "created_at", type |-> "DATETIME"]>>,
   user_settings |-> <<[name |-> "id", type |-> "INTEGER"],
                       [name |-> "chat_id", type |-> "TEXT"],
                       [name |-> "storage_type", type |-> "TEXT"],
                       [name |-> "current_category_id", type |-> "INTEGER"],
                       [name |-> "waiting_for", type |-> "TEXT"],
                       [name |-> "editing_file_id", type |-> "TEXT"]>>,
   files |-> <<[name |-> "id", type |-> "INTEGER"],
               [name |-> "url", type |-> "TEXT"],
               [name |-> "fileId", type |-> "TEXT"],
               [name |-> "message_id", type |-> "INTEGER"],
               [name |-> "created_at", type |-> "DATETIME"],
               [name |-> "file_name", type |-> "TEXT"],
               [name |-> "file_size", type |-> "INTEGER"],
               [name |-> "mime_type", type |-> "TEXT"],
               [name |-> "storage_type", type |-> "TEXT"],
               [name |-> "category_id", type |-> "INTEGER"],
               [name |-> "chat_id", type |-> "TEXT"]>>]

Range(s) == {s[i] : i \in 1..Len(s)}

\* the columns CREATE TABLE IF NOT EXISTS declares (recreateAllTables)
CreatedColumns(t) == Range(tableStructures[t])

NoRow == [null |-> TRUE]

\* The value of an expression that is computed once: Val({e(x) : x \in {a}})
\* is e(a), with a evaluated before e is.
Val(S) == CHOOSE v \in S : TRUE

\* Statement.first(): of the rows of s at the matching indices I the first, or
\* null when none matches
First(s, I) ==
  IF I = {} THEN NoRow ELSE s[CHOOSE i \in I : \A j \in I : i <= j]

\* SELECT id FROM categories WHERE name = ?
CategoryByName(d, n) ==
  First(d.categories, {i \in 1..Len(d.categories) : d.categories[i].name = n})

HasDefault(d) == CategoryByName(d, DefaultCategoryName) # NoRow

\* INSERT INTO categories (name, created_at) VALUES (?, ?) on a table with
\* id INTEGER PRIMARY KEY AUTOINCREMENT: the new id is one more than the
\* largest id the table ever held
InsertCategory(d, n) ==
  LET id == d.seq.categories + 1
  IN  [d EXCEPT !.categories = Append(@, [id |-> id, name |-> n]),
                !.seq.categories = id]

\* UPDATE user_settings SET storage_type = ?, current_category_id = ? WHERE chat_id = ?
UpdateSettingStorage(d, st, cat, chat) ==
  [d EXCEPT !.user_settings =
     [i \in 1..Len(@) |->
        IF @[i].chat_id = chat
        THEN [@[i] EXCEPT !.storage_type = st, !.current_category_id = cat]
        ELSE @[i]]]

\* INSERT INTO files (url, fileId, message_id, created_at, file_name, file_size,
\*                    mime_type, storage_type, category_id) VALUES (...)
InsertFile(d, r) ==
  LET id == d.seq.files + 1
  IN  [d EXCEPT !.files = Append(@,
                   [id |-> id, url |-> r.url, fileId |-> r.fileId,
                    message_id |-> r.message_id, file_name |-> r.file_name,
                    file_size |-> r.file_size, mime_type |-> r.mime_type,
                    storage_type |-> r.storage_type, category_id |-> r.category_id,
                    chat_id |-> IF "chat_id" \in DOMAIN r THEN r.chat_id ELSE NullText]),
                !.seq.files = id]

\* the store after a successful bootstrap of an empty database
BootstrappedDb ==
  [tables |-> TableSet,
   cols |-> [t \in TableSet |-> CreatedColumns(t)],
   categories |-> <<[id |-> 1, name |-> DefaultCategoryName]>>,
   user_settings |-> <<>>,
   files |-> <<>>,
   seq |-> [categories |-> 1, user_settings |-> 0, files |-> 0]]

----------------------------------------------------------------------------
(* The blob stores *)

EmptyBucket == [k \in {} |-> [body |-> <<>>, contentType |-> ""]]

\* a put that reports success and keeps nothing
BucketPutDropped(b, key, body, ct) == b

\* bucket.put(key, body, { httpMetadata: { contentType } })
BucketPut(b, key, body, ct) ==
  [k \in DOMAIN b \cup {key} |->
     IF k = key THEN [body |-> body, contentType |-> ct] ELSE b[k]]

\* the transport's file_id and message_id of its n-th document
TgFileId(n) == <<100 + n, "">>

\* sendDocument: the transport keeps the bytes and answers with ids
TgSend(t, body) == Append(t, body)

TgHas(t, fid) == \E n \in 1..Len(t) : TgFileId(n) = fid
TgBody(t, fid) == t[CHOOSE n \in 1..Len(t) : TgFileId(n) = fid]

----------------------------------------------------------------------------
(* Responses *)

NoUrl == [host |-> "", path |-> NoName]

Response(status, body, headers, via) ==
  [status |-> status, body |-> body, headers |-> headers, via |-> via,
   location |-> NoUrl]

\* Response.redirect(url, 302)
Redirect(url) ==
  [status |-> 302, body |-> <<>>, headers |-> {<<"Location", "url">>},
   via |-> "redirect", location |-> url]

NoResponse == Response(0, <<>>, {}, "none")

\* Headers.set(name, value)
SetHeader(h, n, v) == {x \in h : x[1] # n} \cup {<<n, v>>}

IsMedia(ct) == ct \in {"video/mp4", "image/png"}

\* getCommonHeaders of handleFileRequest
getCommonHeaders(contentType) ==
  LET h1 == {<<"Content-Type", contentType>>,
             <<"Access-Control-Allow-Origin", "*">>}
      h2 == IF IsMedia(contentType)
            THEN SetHeader(h1, "Content-Disposition", "inline") ELSE h1
  IN  SetHeader(h2, "Cache-Control", "public, max-age=31536000")

\* the response built from a bucket object: common headers, the object's http
\* metadata written over them, the etag, and the whole object body
ObjectResponse(obj, fallbackType, via) ==
  LET contentType == IF obj.contentType # "" THEN obj.contentType ELSE fallbackType
      h1 == getCommonHeaders(contentType)
      h2 == IF obj.contentType # "" THEN SetHeader(h1, "Content-Type", obj.contentType) ELSE h1
  IN  Response(200, obj.body, SetHeader(h2, "etag", "httpEtag"), via)

NoRange == [present |-> FALSE, start |-> 0, end |-> -1]

\* the Range headers a client may send: none, bytes=<start>- and bytes=<start>-<end>
RangeInputs ==
  {NoRange} \cup
  {[present |-> TRUE, start |-> a, end |-> b] : a \in 0..MaxLen, b \in -1..(MaxLen - 1)}

\* outcomes of the calls to the blob stores that a request makes
FetchFaults == {"none", "bucketGet", "getFile", "download"}

\* handleFileRequest.  The file cache is a new Map in every fetch (config is
\* built per request), so no request finds an entry and the cached branch is
\* not taken.  The Range header of the request is not read.  `domain` is
\* config.domain.
handleFileRequestAt(domain, d, b, t, e, path, range, fault) ==
  LET urlPattern == [host |-> domain, path |-> path]
      direct == e.bucket /\ fault # "bucketGet" /\ path \in DOMAIN b
      byUrl == First(d.files, {i \in 1..Len(d.files) : d.files[i].url = urlPattern})
      byFileId == First(d.files, {i \in 1..Len(d.files) : d.files[i].fileId = path})
      byName == First(d.files, {i \in 1..Len(d.files) : d.files[i].file_name = path})
      file == IF byUrl # NoRow THEN byUrl
              ELSE IF byFileId # NoRow THEN byFileId ELSE byName
      tail == IF file.url # NoUrl /\ file.url # urlPattern
              THEN Redirect(file.url)
              ELSE Response(404, <<>>, {}, "none")
  IN  IF direct
      THEN ObjectResponse(b[path], getContentType(ExtOf(path)), "bucket-path")
      ELSE IF file = NoRow THEN Response(404, <<>>, {}, "none")
      ELSE IF file.storage_type = "telegram"
      THEN IF file.fileId = NoName THEN Response(500, <<>>, {}, "none")
           ELSE IF fault = "getFile" \/ ~TgHas(t, file.fileId)
           THEN Response(500, <<>>, {}, "none")
           ELSE IF fault = "download" THEN Response(404, <<>>, {}, "none")
           ELSE Response(200, TgBody(t, file.fileId),
                         getCommonHeaders(IF file.mime_type # "" THEN file.mime_type
                                          ELSE getContentType(ExtOf(path))),
                         "transport")
      ELSE IF file.storage_type = "r2" /\ e.bucket
              /\ fault # "bucketGet" /\ file.fileId \in DOMAIN b
      THEN ObjectResponse(b[file.fileId],
                          IF file.mime_type # "" THEN file.mime_type
                          ELSE getContentType(ExtOf(path)),
                          "bucket-locator")
      ELSE tail

\* the handler in a deployment whose config.domain is Domain
handleFileRequest(d, b, t, e, path, range, fault) ==
  handleFileRequestAt(Domain, d, b, t, e, path, range, fault)

----------------------------------------------------------------------------
(* The in-memory emulator (createInMemoryDatabase) *)

\* the state createInMemoryDatabase starts from
NewEmulator ==
  [initialized |-> FALSE,
   categories |-> <<>>, files |-> <<>>, user_settings |-> <<>>,
   ids |-> [categories |-> 1, files |-> 1, user_settings |-> 1]]

\* an initialization that seeds nothing
ensureInitializedNever(m) == [m EXCEPT !.initialized = TRUE]

\* an initialization that seeds on every call
ensureInitializedAlways(m) ==
  [m EXCEPT !.categories = Append(@, [id |-> m.ids.categories,
                                      name |-> DefaultCategoryName]),
            !.ids.categories = @ + 1,
            !.initialized = TRUE]

\* ensureInitialized: the first use seeds the default category
ensureInitialized(m) ==
  IF m.initialized THEN m
  ELSE [m EXCEPT !.categories = Append(@, [id |-> m.ids.categories,
                                           name |-> DefaultCategoryName]),
                 !.ids.categories = @ + 1,
                 !.initialized = TRUE]

----------------------------------------------------------------------------
(* Statements.  A statement text is the sequence of its words (the text split
   at white space), as the handlers write it; a bound parameter that stands
   for a number is a JavaScript value: a number or a string of digits. *)

JsNum(n) == [t |-> "number", v |-> n]
JsStr(n) == [t |-> "string", v |-> n]

\* a comparison that takes a string of digits for no number
NumberStrict(x) == IF x.t = "number" THEN x.v ELSE -1

\* Number(v), and the comparison of an INTEGER column with a bound value
Number(x) == x.v

\* String.prototype.toLowerCase on the words of the statements
ToLowerWord(w) ==
  CASE w = "SELECT" -> "select" [] w = "FROM" -> "from" [] w = "WHERE" -> "where"
    [] w = "AND" -> "and" [] w = "UPDATE" -> "update" [] w = "SET" -> "set"
    [] w = "INSERT" -> "insert" [] w = "INTO" -> "into" [] w = "VALUES" -> "values"
    [] w = "DELETE" -> "delete" [] w = "NULL" -> "null" [] w = "NULL," -> "null,"
    [] w = "fileId" -> "fileid" [] w = "DROP" -> "drop" [] w = "TABLE" -> "table"
    [] w = "PRAGMA" -> "pragma" [] w = "COUNT(*)" -> "count(*)" [] w = "IS" -> "is"
    [] w = "OR" -> "or" [] w = "IGNORE" -> "ignore"
    [] OTHER -> w

\* sql.trim().replace(/\s+/g, ' ').toLowerCase()
Normalize(sql) == [i \in 1..Len(sql) |-> ToLowerWord(sql[i])]

\* normalized.startsWith(shape)
StartsWith(normalized, shape) ==
  /\ Len(shape) <= Len(normalized)
  /\ \A i \in 1..Len(shape) : normalized[i] = shape[i]

\* the statements of the category handlers (lines 1994-2064)
CategorySql ==
  [SelectCategoryIdByName |->
     <<"SELECT", "id", "FROM", "categories", "WHERE", "name", "=", "?">>,
   SelectCategoryByIdAndName |->
     <<"SELECT", "id", "FROM", "categories", "WHERE", "id", "=", "?", "AND", "name", "=",
     "?">>,
   SelectCategoryNameById |->
     <<"SELECT", "name", "FROM", "categories", "WHERE", "id", "=", "?">>,
   InsertCategoryStmt |->
     <<"INSERT", "INTO", "categories", "(name,", "created_at)", "VALUES", "(?,", "?)">>,
   DeleteCategoryById |->
     <<"DELETE", "FROM", "categories", "WHERE", "id", "=", "?">>,
   UpdateFilesCategory |->
     <<"UPDATE", "files", "SET", "category_id", "=", "?", "WHERE", "category_id", "=", "?">>,
   UpdateFilesCategoryNull |->
     <<"UPDATE", "files", "SET", "category_id", "=", "NULL", "WHERE", "category_id", "=",
     "?">>,
   UpdateSettingsCategory |->
     <<"UPDATE", "user_settings", "SET", "current_category_id", "=", "?", "WHERE",
     "current_category_id", "=", "?">>,
   UpdateSettingsCategoryNull |->
     <<"UPDATE", "user_settings", "SET", "current_category_id", "=", "NULL", "WHERE",
     "current_category_id", "=", "?">>]

\* the statements of the webhook on user_settings (lines 862-1606), and the one of the upload handler (line 2134)
SettingSql ==
  [SelectSettingByChat |->
     <<"SELECT", "*", "FROM", "user_settings", "WHERE", "chat_id", "=", "?">>,
   InsertSettingStmt |->
     <<"INSERT", "INTO", "user_settings", "(chat_id,", "storage_type,",
     "current_category_id)", "VALUES", "(?,", "?,", "?)">>,
   UpdateSettingStorageAndCategory |->
     <<"UPDATE", "user_settings", "SET", "storage_type", "=", "?,", "current_category_id",
     "=", "?", "WHERE", "chat_id", "=", "?">>,
   UpdateSettingWaitingAndEditing |->
     <<"UPDATE", "user_settings", "SET", "waiting_for", "=", "?,", "editing_file_id", "=",
     "?", "WHERE", "chat_id", "=", "?">>,
   ClearSettingWaitingAndEditing |->
     <<"UPDATE", "user_settings", "SET", "waiting_for", "=", "NULL,", "editing_file_id", "=",
     "NULL", "WHERE", "chat_id", "=", "?">>,
   UpdateSettingWaiting |->
     <<"UPDATE", "user_settings", "SET", "waiting_for", "=", "?", "WHERE", "chat_id", "=",
     "?">>,
   ClearSettingWaiting |->
     <<"UPDATE", "user_settings", "SET", "waiting_for", "=", "NULL", "WHERE", "chat_id", "=",
     "?">>,
   UpdateSettingStorageOnly |->
     <<"UPDATE", "user_settings", "SET", "storage_type", "=", "?", "WHERE", "chat_id", "=",
     "?">>,
   UpdateSettingCategoryOnly |->
     <<"UPDATE", "user_settings", "SET", "current_category_id", "=", "?", "WHERE", "chat_id",
     "=", "?">>,
   UpdateSettingCategoryClearWaiting |->
     <<"UPDATE", "user_settings", "SET", "current_category_id", "=", "?,", "waiting_for",
     "=", "NULL", "WHERE", "chat_id", "=", "?">>]

\* the statements on files of the relocation, upload, delete and file handlers
FileSql ==
  [SelectFileById |->
     <<"SELECT", "*", "FROM", "files", "WHERE", "id", "=", "?">>,
   UpdateFileUrl |->
     <<"UPDATE", "files", "SET", "url", "=", "?", "WHERE", "id", "=", "?">>,
   UpdateFileLocator |->
     <<"UPDATE", "files", "SET", "fileId", "=", "?,", "url", "=", "?", "WHERE", "id", "=",
     "?">>,
   InsertFileStmt |->
     <<"INSERT", "INTO", "files", "(url,", "fileId,", "message_id,", "created_at,",
     "file_name,", "file_size,", "mime_type,", "storage_type,", "category_id)", "VALUES",
     "(?,", "?,", "?,", "?,", "?,", "?,", "?,", "?,", "?)">>,
   DeleteFileById |->
     <<"DELETE", "FROM", "files", "WHERE", "id", "=", "?">>,
   SelectFileByUrl |->
     <<"SELECT", "*", "FROM", "files", "WHERE", "url", "=", "?">>,
   SelectFileByLocator |->
     <<"SELECT", "*", "FROM", "files", "WHERE", "fileId", "=", "?">>,
   SelectFileByName |->
     <<"SELECT", "*", "FROM", "files", "WHERE", "file_name", "=", "?">>,
   SelectOtherFileByLocator |->
     <<"SELECT", "*", "FROM", "files", "WHERE", "fileId", "=", "?", "AND", "id", "!=", "?">>,
   SelectOtherFileByUrl |->
     <<"SELECT", "*", "FROM", "files", "WHERE", "url", "=", "?", "AND", "id", "!=", "?">>,
   SelectFileByUrlAndChat |->
     <<"SELECT", "id,", "url,", "file_name", "FROM", "files", "WHERE", "url", "=", "?", "AND",
     "chat_id", "=", "?">>,
   SelectFileToDelete |->
     <<"SELECT", "id,", "fileId,", "message_id,", "storage_type,", "url,", "file_name", "FROM",
     "files", "WHERE", "url", "=", "?", "AND", "chat_id", "=", "?">>,
   InsertFileWithChat |->
     <<"INSERT", "INTO", "files", "(url,", "fileId,", "message_id,", "created_at,",
     "file_name,", "file_size,", "mime_type,", "chat_id,", "category_id,", "storage_type)",
     "VALUES", "(?,", "?,", "?,", "?,", "?,", "?,", "?,", "?,", "?,", "?)">>]

\* statements of the admin page and of the bootstrap
OtherSql ==
  [InsertOrIgnoreCategory |->
     <<"INSERT", "OR", "IGNORE", "INTO", "categories", "(name)", "VALUES", "(?)">>,
   SelectCategories |->
     <<"SELECT", "id,", "name", "FROM", "categories">>,
   SelectAllFiles |->
     <<"SELECT", "*", "FROM", "files">>,
   CountUncategorizedFiles |->
     <<"SELECT", "COUNT(*)", "as", "count", "FROM", "files", "WHERE", "category_id", "IS",
     "NULL">>,
   PragmaTableInfo |->
     <<"PRAGMA", "table_info(files)">>,
   DropFilesTable |->
     <<"DROP", "TABLE", "IF", "EXISTS", "files">>]

\* the shapes the emulator's run recognizes, in the order it tests them
RunShapes ==
  <<<<"drop", "table">>, <<"create", "table">>,
    <<"insert", "or", "ignore", "into", "categories", "(name)", "values", "(?)">>,
    <<"insert", "into", "categories", "(name,", "created_at)", "values">>,
    <<"delete", "from", "categories", "where", "id", "=", "?">>,
    <<"insert", "into", "files">>,
    <<"update", "files", "set", "category_id", "=", "?", "where", "category_id", "=", "?">>,
    <<"update", "files", "set", "category_id", "=", "null", "where", "category_id", "=", "?">>,
    <<"update", "files", "set", "url", "=", "?", "where", "id", "=", "?">>,
    <<"delete", "from", "files", "where", "id", "=", "?">>,
    <<"insert", "into", "user_settings">>,
    <<"update", "user_settings", "set", "storage_type", "=", "?,", "current_category_id", "=", "?",
      "where", "chat_id", "=", "?">>,
    <<"update", "user_settings", "set", "current_category_id", "=", "?",
      "where", "current_category_id", "=", "?">>,
    <<"update", "user_settings", "set", "waiting_for", "=", "null,", "editing_file_id", "=", "null",
      "where", "chat_id", "=", "?">>,
    <<"update", "user_settings", "set", "waiting_for", "=", "?,", "editing_file_id", "=", "?",
      "where", "chat_id", "=", "?">>>>

\* the shapes the emulator's all recognizes (the join and the search are
\* told by their first words)
AllShapes ==
  <<<<"select", "id,", "name", "from", "categories">>,
    <<"select", "*", "from", "files">>,
    <<"select", "f.url,", "f.fileid">>,
    <<"select", "url,", "fileid,", "message_id,", "created_at,", "file_name,", "file_size,",
      "mime_type", "from", "files", "where", "file_name", "like">>>>

\* the shapes the emulator's first recognizes, in the order it tests them
FirstShapes ==
  <<<<"select", "id", "from", "categories", "where", "name", "=", "?">>,
    <<"select", "id", "from", "categories", "where", "id", "=", "?", "and", "name", "=", "?">>,
    <<"select", "name", "from", "categories", "where", "id", "=", "?">>,
    <<"select", "*", "from", "user_settings", "where", "chat_id", "=", "?">>,
    <<"select", "id,", "url,", "file_name", "from", "files", "where", "url", "=", "?", "and",
      "chat_id", "=", "?">>,
    <<"select", "id,", "url,", "file_name", "from", "files", "where", "(file_name", "=", "?", "or",
      "url", "like", "?)", "and", "chat_id", "=", "?">>,
    <<"select", "*", "from", "files", "where", "id", "=", "?">>,
    <<"select", "*", "from", "files", "where", "url", "=", "?">>,
    <<"select", "*", "from", "files", "where", "fileid", "=", "?", "and", "id", "!=", "?">>,
    <<"select", "*", "from", "files", "where", "url", "=", "?", "and", "id", "!=", "?">>,
    <<"select", "*", "from", "files", "where", "fileid", "=", "?">>,
    <<"select", "*", "from", "files", "where", "file_name", "=", "?">>,
    <<"select", "id,", "fileid,", "message_id,", "storage_type", "from", "files", "where", "url", "=", "?">>,
    <<"select", "id,", "fileid,", "message_id,", "storage_type", "from", "files", "where",
      "fileid", "=", "?">>>>

\* the index of the first shape the normalized text starts with, 0 for none
ShapeOf(shapes, normalized) ==
  Val({IF \A i \in 1..Len(shapes) : ~StartsWith(n, shapes[i]) THEN 0
       ELSE CHOOSE i \in 1..Len(shapes) :
              /\ StartsWith(n, shapes[i])
              /\ \A j \in 1..(i - 1) : ~StartsWith(n, shapes[j]) :
         n \in {normalized}})

\* Array.prototype.find over rows: the first row at the indices I, or null
Find(rows, I) == IF I = {} THEN NoRow ELSE rows[CHOOSE i \in I : \A j \in I : i <= j]

\* Array.prototype.splice(idx, 1) for the first row at the indices I
RemoveFirst(rows, I) ==
  IF I = {} THEN rows
  ELSE LET k == CHOOSE i \in I : \A j \in I : i <= j
       IN  [i \in 1..(Len(rows) - 1) |-> IF i < k THEN rows[i] ELSE rows[i + 1]]

\* the emulator's run for the k-th shape of RunShapes on the initialized
\* store m: the store after the statement, and meta.last_row_id
emRunShape(m, k, params) ==
  LET byName(n) == {i \in 1..Len(m.categories) : m.categories[i].name = n}
      setRows(rows, P(_), F(_)) == [i \in 1..Len(rows) |-> IF P(rows[i]) THEN F(rows[i]) ELSE rows[i]]
      firstChat(c) == {i \in 1..Len(m.user_settings) : m.user_settings[i].chat_id = c}
      setFirst(rows, I, F(_)) ==
        IF I = {} THEN rows
        ELSE LET j == CHOOSE i \in I : \A x \in I : i <= x
             IN  [rows EXCEPT ![j] = F(rows[j])]
  IN  CASE k \in {1, 2} -> [m |-> m, meta |-> 0]
        [] k \in {3, 4} ->
             IF byName(params[1]) # {}
             THEN [m |-> m, meta |-> Find(m.categories, byName(params[1])).id]
             ELSE [m |-> [m EXCEPT !.categories =
                                      Append(@, [id |-> m.ids.categories, name |-> params[1]]),
                                   !.ids.categories = @ + 1],
                   meta |-> m.ids.categories]
        [] k = 5 ->
             [m |-> [m EXCEPT !.categories =
                        RemoveFirst(@, {i \in 1..Len(@) : @[i].id = Number(params[1])})],
              meta |-> 0]
        [] k = 6 ->
             [m |-> [m EXCEPT !.files =
                        Append(@, [id |-> m.ids.files, url |-> params[1], fileId |-> params[2],
                                   message_id |-> params[3], file_name |-> params[5],
                                   file_size |-> params[6], mime_type |-> params[7],
                                   storage_type |-> params[8], category_id |-> params[9]]),
                            !.ids.files = @ + 1],
              meta |-> m.ids.files]
        [] k = 7 ->
             [m |-> [m EXCEPT !.files =
                        setRows(@, LAMBDA f : f.category_id = Number(params[2]),
                                   LAMBDA f : [f EXCEPT !.category_id = Number(params[1])])],
              meta |-> 0]
        [] k = 8 ->
             [m |-> [m EXCEPT !.files =
                        setRows(@, LAMBDA f : f.category_id = Number(params[1]),
                                   LAMBDA f : [f EXCEPT !.category_id = NullId])],
              meta |-> 0]
        [] k = 9 ->
             [m |-> [m EXCEPT !.files =
                        setFirst(@, {i \in 1..Len(@) : @[i].id = Number(params[2])},
                                 LAMBDA f : [f EXCEPT !.url = params[1]])],
              meta |-> 0]
        [] k = 10 ->
             [m |-> [m EXCEPT !.files =
                        RemoveFirst(@, {i \in 1..Len(@) : @[i].id = Number(params[1])})],
              meta |-> 0]
        [] k = 11 ->
             [m |-> [m EXCEPT !.user_settings =
                        Append(@, [id |-> m.ids.user_settings, chat_id |-> params[1],
                                   storage_type |-> params[2],
                                   current_category_id |-> params[3],
                                   waiting_for |-> NullText, editing_file_id |-> NullId]),
                            !.ids.user_settings = @ + 1],
              meta |-> m.ids.user_settings]
        [] k = 12 ->
             [m |-> [m EXCEPT !.user_settings =
                        setFirst(@, firstChat(params[3]),
                                 LAMBDA u : [u EXCEPT !.storage_type = params[1],
                                                      !.current_category_id = params[2]])],
              meta |-> 0]
        [] k = 13 ->
             [m |-> [m EXCEPT !.user_settings =
                        setRows(@, LAMBDA u : u.current_category_id = Number(params[2]),
                                   LAMBDA u : [u EXCEPT !.current_category_id = Number(params[1])])],
              meta |-> 0]
        [] k = 14 ->
             [m |-> [m EXCEPT !.user_settings =
                        setFirst(@, firstChat(params[1]),
                                 LAMBDA u : [u EXCEPT !.waiting_for = NullText,
                                                      !.editing_file_id = NullId])],
              meta |-> 0]
        [] k = 15 ->
             [m |-> [m EXCEPT !.user_settings =
                        setFirst(@, firstChat(params[3]),
                                 LAMBDA u : [u EXCEPT !.waiting_for = params[1],
                                                      !.editing_file_id = params[2]])],
              meta |-> 0]
        [] OTHER -> [m |-> m, meta |-> 0]

\* a run whose counters are the table lengths plus one: the id of a deleted
\* last row is handed out again
emRunCountsRows(m0, sql, params) ==
  Val({[m |-> [r.m EXCEPT !.ids = [categories |-> Len(r.m.categories) + 1,
                                   files |-> Len(r.m.files) + 1,
                                   user_settings |-> Len(r.m.user_settings) + 1]],
        meta |-> r.meta] :
         r \in {emRunShape(x[1], x[2], params) :
                  x \in {<<ensureInitialized(m0), ShapeOf(RunShapes, Normalize(sql))>>}}})

\* the emulator's run
emRun(m0, sql, params) ==
  Val({emRunShape(x[1], x[2], params) :
         x \in {<<ensureInitialized(m0), ShapeOf(RunShapes, Normalize(sql))>>}})

\* the emulator's first for the k-th shape of FirstShapes on the initialized
\* store m: the store after the call, and the row or null.  The shapes with
\* chat_id compare a column the handlers' inserts of the model never set, so
\* they find no row.
emFirstShape(m, k, params) ==
  LET cats(P(_)) == {i \in 1..Len(m.categories) : P(m.categories[i])}
      files(P(_)) == {i \in 1..Len(m.files) : P(m.files[i])}
      cat(I) == Find(m.categories, I)
      file(I) == Find(m.files, I)
      row ==
        CASE k = 1 ->
               LET c == cat(cats(LAMBDA c : c.name = params[1]))
               IN  IF c = NoRow THEN NoRow ELSE [id |-> c.id]
          [] k = 2 ->
               LET c == cat(cats(LAMBDA c : c.id = Number(params[1]) /\ c.name = params[2]))
               IN  IF c = NoRow THEN NoRow ELSE [id |-> c.id]
          [] k = 3 ->
               LET c == cat(cats(LAMBDA c : c.id = Number(params[1])))
               IN  IF c = NoRow THEN NoRow ELSE [name |-> c.name]
          [] k = 4 ->
               Find(m.user_settings,
                    {i \in 1..Len(m.user_settings) : m.user_settings[i].chat_id = params[1]})
          [] k \in {5, 6} -> NoRow
          [] k = 7 -> file(files(LAMBDA f : f.id = Number(params[1])))
          [] k = 8 -> file(files(LAMBDA f : f.url = params[1]))
          [] k = 9 -> file(files(LAMBDA f : f.fileId = params[1] /\ f.id # Number(params[2])))
          [] k = 10 -> file(files(LAMBDA f : f.url = params[1] /\ f.id # Number(params[2])))
          [] k = 11 -> file(files(LAMBDA f : f.fileId = params[1]))
          [] k = 12 -> file(files(LAMBDA f : f.file_name = params[1]))
          [] k = 13 ->
               LET f == file(files(LAMBDA f : f.url = params[1]))
               IN  IF f = NoRow THEN NoRow
                   ELSE [id |-> f.id, fileId |-> f.fileId, message_id |-> f.message_id,
                         storage_type |-> f.storage_type]
          [] k = 14 ->
               LET f == file(files(LAMBDA f : f.fileId = params[1]))
               IN  IF f = NoRow THEN NoRow
                   ELSE [id |-> f.id, fileId |-> f.fileId, message_id |-> f.message_id,
                         storage_type |-> f.storage_type]
          [] OTHER -> NoRow
  IN  [m |-> m, row |-> row]

\* the emulator's first
emFirst(m0, sql, params) ==
  Val({emFirstShape(x[1], x[2], params) :
         x \in {<<ensureInitialized(m0), ShapeOf(FirstShapes, Normalize(sql))>>}})

\* the emulator's all: the store after the call, and the result list (the
\* join and the search list the files; their ordering and projection are
\* left out)
emAll(m0, sql, params) ==
  Val({[m |-> x[1],
        results |->
          CASE x[2] = 1 -> [i \in 1..Len(x[1].categories) |->
                             [id |-> x[1].categories[i].id, name |-> x[1].categories[i].name]]
            [] x[2] \in {2, 3, 4} -> x[1].files
            [] OTHER -> <<>>] :
         x \in {<<ensureInitialized(m0), ShapeOf(AllShapes, Normalize(sql))>>}})

\* The bound store's run for the statements of the handlers: the store after
\* the statement, meta.last_row_id, and whether the statement throws (the
\* UNIQUE constraint on categories.name and user_settings.chat_id).
sqlRun(d, sql, params) ==
  LET is(stmt) == sql = stmt
      ok(d2, id) == [d |-> d2, meta |-> id, error |-> FALSE]
      threw == [d |-> d, meta |-> 0, error |-> TRUE]
      setFiles(P(_), F(_)) ==
        [d EXCEPT !.files = [i \in 1..Len(@) |-> IF P(@[i]) THEN F(@[i]) ELSE @[i]]]
      setSettings(P(_), F(_)) ==
        [d EXCEPT !.user_settings = [i \in 1..Len(@) |-> IF P(@[i]) THEN F(@[i]) ELSE @[i]]]
  IN  CASE is(OtherSql.InsertOrIgnoreCategory) ->
             IF \E i \in 1..Len(d.categories) : d.categories[i].name = params[1]
             THEN ok(d, 0)
             ELSE ok(InsertCategory(d, params[1]), d.seq.categories + 1)
        [] is(CategorySql.InsertCategoryStmt) ->
             IF \E i \in 1..Len(d.categories) : d.categories[i].name = params[1]
             THEN threw
             ELSE ok(InsertCategory(d, params[1]), d.seq.categories + 1)
        [] is(CategorySql.DeleteCategoryById) ->
             ok([d EXCEPT !.categories = SelectSeq(@, LAMBDA c : c.id # Number(params[1]))], 0)
        [] is(CategorySql.UpdateFilesCategory) ->
             ok(setFiles(LAMBDA f : f.category_id # NullId /\ f.category_id = Number(params[2]),
                         LAMBDA f : [f EXCEPT !.category_id = Number(params[1])]), 0)
        [] is(CategorySql.UpdateFilesCategoryNull) ->
             ok(setFiles(LAMBDA f : f.category_id # NullId /\ f.category_id = Number(params[1]),
                         LAMBDA f : [f EXCEPT !.category_id = NullId]), 0)
        [] is(CategorySql.UpdateSettingsCategory) ->
             ok(setSettings(LAMBDA u : u.current_category_id # NullId
                                         /\ u.current_category_id = Number(params[2]),
                            LAMBDA u : [u EXCEPT !.current_category_id = Number(params[1])]), 0)
        [] is(CategorySql.UpdateSettingsCategoryNull) ->
             ok(setSettings(LAMBDA u : u.current_category_id # NullId
                                         /\ u.current_category_id = Number(params[1]),
                            LAMBDA u : [u EXCEPT !.current_category_id = NullId]), 0)
        [] is(FileSql.InsertFileStmt) ->
             ok(InsertFile(d, [url |-> params[1], fileId |-> params[2], message_id |-> params[3],
                               file_name |-> params[5], file_size |-> params[6],
                               mime_type |-> params[7], storage_type |-> params[8],
                               category_id |-> params[9]]),
                d.seq.files + 1)
        [] is(FileSql.InsertFileWithChat) ->
             ok(InsertFile(d, [url |-> params[1], fileId |-> params[2], message_id |-> params[3],
                               file_name |-> params[5], file_size |-> params[6],
                               mime_type |-> params[7], chat_id |-> params[8],
                               category_id |-> params[9], storage_type |-> params[10]]),
                d.seq.files + 1)
        [] is(FileSql.DeleteFileById) ->
             ok([d EXCEPT !.files = SelectSeq(@, LAMBDA f : f.id # Number(params[1]))], 0)
        [] is(FileSql.UpdateFileUrl) ->
             ok(setFiles(LAMBDA f : f.id = Number(params[2]),
                         LAMBDA f : [f EXCEPT !.url = params[1]]), 0)
        [] is(FileSql.UpdateFileLocator) ->
             ok(setFiles(LAMBDA f : f.id = Number(params[3]),
                         LAMBDA f : [f EXCEPT !.fileId = params[1], !.url = params[2]]), 0)
        [] is(SettingSql.InsertSettingStmt) ->
             IF \E i \in 1..Len(d.user_settings) : d.user_settings[i].chat_id = params[1]
             THEN threw
             ELSE ok([d EXCEPT !.user_settings =
                                 Append(@, [id |-> d.seq.user_settings + 1, chat_id |-> params[1],
                                            storage_type |-> params[2],
                                            current_category_id |-> params[3],
                                            waiting_for |-> NullText,
                                            editing_file_id |-> NullId]),
                               !.seq.user_settings = @ + 1],
                     d.seq.user_settings + 1)
        [] is(SettingSql.UpdateSettingStorageAndCategory) ->
             ok(UpdateSettingStorage(d, params[1], params[2], params[3]), 0)
        [] is(SettingSql.UpdateSettingWaitingAndEditing) ->
             ok(setSettings(LAMBDA u : u.chat_id = params[3],
                            LAMBDA u : [u EXCEPT !.waiting_for = params[1],
                                                 !.editing_file_id = params[2]]), 0)
        [] is(SettingSql.ClearSettingWaitingAndEditing) ->
             ok(setSettings(LAMBDA u : u.chat_id = params[1],
                            LAMBDA u : [u EXCEPT !.waiting_for = NullText,
                                                 !.editing_file_id = NullId]), 0)
        [] is(SettingSql.UpdateSettingWaiting) ->
             ok(setSettings(LAMBDA u : u.chat_id = params[2],
                            LAMBDA u : [u EXCEPT !.waiting_for = params[1]]), 0)
        [] is(SettingSql.ClearSettingWaiting) ->
             ok(setSettings(LAMBDA u : u.chat_id = params[1],
                            LAMBDA u : [u EXCEPT !.waiting_for = NullText]), 0)
        [] is(SettingSql.UpdateSettingStorageOnly) ->
             ok(setSettings(LAMBDA u : u.chat_id = params[2],
                            LAMBDA u : [u EXCEPT !.storage_type = params[1]]), 0)
        [] is(SettingSql.UpdateSettingCategoryOnly) ->
             ok(setSettings(LAMBDA u : u.chat_id = params[2],
                            LAMBDA u : [u EXCEPT !.current_category_id = params[1]]), 0)
        [] is(SettingSql.UpdateSettingCategoryClearWaiting) ->
             ok(setSettings(LAMBDA u : u.chat_id = params[2],
                            LAMBDA u : [u EXCEPT !.current_category_id = params[1],
                                                 !.waiting_for = NullText]), 0)
        [] OTHER -> ok(d, 0)

\* the bound store's first for the statements of the handlers
sqlFirst(d, sql, params) ==
  LET is(stmt) == sql = stmt
      cat(P(_)) == First(d.categories, {i \in 1..Len(d.categories) : P(d.categories[i])})
      file(P(_)) == First(d.files, {i \in 1..Len(d.files) : P(d.files[i])})
  IN  CASE is(CategorySql.SelectCategoryIdByName) ->
             LET c == cat(LAMBDA c : c.name = params[1])
             IN  IF c = NoRow THEN NoRow ELSE [id |-> c.id]
        [] is(CategorySql.SelectCategoryByIdAndName) ->
             LET c == cat(LAMBDA c : c.id = Number(params[1]) /\ c.name = params[2])
             IN  IF c = NoRow THEN NoRow ELSE [id |-> c.id]
        [] is(CategorySql.SelectCategoryNameById) ->
             LET c == cat(LAMBDA c : c.id = Number(params[1]))
             IN  IF c = NoRow THEN NoRow ELSE [name |-> c.name]
        [] is(SettingSql.SelectSettingByChat) ->
             First(d.user_settings,
                   {i \in 1..Len(d.user_settings) : d.user_settings[i].chat_id = params[1]})
        [] is(FileSql.SelectFileById) -> file(LAMBDA f : f.id = Number(params[1]))
        [] is(FileSql.SelectFileByUrl) -> file(LAMBDA f : f.url = params[1])
        [] is(FileSql.SelectFileByLocator) -> file(LAMBDA f : f.fileId = params[1])
        [] is(FileSql.SelectFileByName) -> file(LAMBDA f : f.file_name = params[1])
        [] is(FileSql.SelectOtherFileByLocator) ->
             file(LAMBDA f : f.fileId = params[1] /\ f.id # Number(params[2]))
        [] is(FileSql.SelectOtherFileByUrl) ->
             file(LAMBDA f : f.url = params[1] /\ f.id # Number(params[2]))
        [] is(FileSql.SelectFileByUrlAndChat) ->
             LET f == file(LAMBDA f : f.url = params[1] /\ f.chat_id = params[2])
             IN  IF f = NoRow THEN NoRow
                 ELSE [id |-> f.id, url |-> f.url, file_name |-> f.file_name]
        [] is(FileSql.SelectFileToDelete) ->
             LET f == file(LAMBDA f : f.url = params[1] /\ f.chat_id = params[2])
             IN  IF f = NoRow THEN NoRow
                 ELSE [id |-> f.id, fileId |-> f.fileId, message_id |-> f.message_id,
                       storage_type |-> f.storage_type, url |-> f.url,
                       file_name |-> f.file_name]
        [] OTHER -> NoRow

\* A store as a handler holds it in config.database: the bound store or the
\* emulator of the request.
D1(d) == [kind |-> "d1", s |-> d]
Emulator(m) == [kind |-> "memory", s |-> m]

\* config.database.prepare(sql).bind(...params).run(): the store and the
\* bound values are values by the time the statement runs
Run(st, sql, params) ==
  Val({IF x[1].kind = "memory"
       THEN Val({[st |-> Emulator(r.m), meta |-> r.meta, error |-> FALSE] :
                   r \in {emRun(x[1].s, sql, x[2])}})
       ELSE Val({[st |-> D1(r.d), meta |-> r.meta, error |-> r.error] :
                   r \in {sqlRun(x[1].s, sql, x[2])}}) :
         x \in {<<st, params>>}})

\* config.database.prepare(sql).bind(...params).first()
FirstRow(st, sql, params) ==
  Val({IF x[1].kind = "memory"
       THEN Val({[st |-> Emulator(r.m), row |-> r.row] : r \in {emFirst(x[1].s, sql, x[2])}})
       ELSE [st |-> x[1], row |-> sqlFirst(x[1].s, sql, x[2])] :
         x \in {<<st, params>>}})

----------------------------------------------------------------------------
(* Schema bootstrap on the bound store: recreateAllTables and the steps of
   validateDatabaseStructure *)

\* String.prototype.toLowerCase / toUpperCase on the column names and types
\* the model's stores declare
LowerName(n) == IF n = "FILEID" \/ n = "fileId" THEN "fileid" ELSE n
UpperType(t) == IF t = "text" THEN "TEXT" ELSE IF t = "integer" THEN "INTEGER" ELSE t

\* actual.toUpperCase().includes(expected): none of the type names of the
\* model (INTEGER, TEXT, DATETIME) is part of another
TypeIncludes(actual, expected) == UpperType(actual) = expected

\* actualColumns.some(col => same name ignoring case, and type includes the expected type)
ColumnFound(actualColumns, expectedColumn) ==
  \E col \in actualColumns :
    /\ LowerName(col.name) = LowerName(expectedColumn.name)
    /\ TypeIncludes(col.type, expectedColumn.type)

\* ALTER TABLE t ADD COLUMN name type: 'duplicate column name' when a column
\* of that name (ignoring case) exists, which the caller tolerates
AddColumn(actualColumns, expectedColumn) ==
  IF \E col \in actualColumns : LowerName(col.name) = LowerName(expectedColumn.name)
  THEN actualColumns
  ELSE actualColumns \cup {expectedColumn}

\* the column loop of verification for one table
RECURSIVE AddMissing(_, _, _)
AddMissing(actualColumns, expected, i) ==
  IF i > Len(expected) THEN actualColumns
  ELSE AddMissing(IF ColumnFound(actualColumns, expected[i]) THEN actualColumns
                  ELSE AddColumn(actualColumns, expected[i]),
                  expected, i + 1)

\* CREATE TABLE IF NOT EXISTS t (...)
CreateTableIfNotExists(d, t) ==
  IF t \in d.tables THEN d
  ELSE [d EXCEPT !.tables = @ \cup {t}, !.cols[t] = CreatedColumns(t)]

\* INSERT OR IGNORE INTO categories (name) VALUES ('默认分类')
InsertOrIgnoreDefault(d) ==
  IF HasDefault(d) THEN d ELSE InsertCategory(d, DefaultCategoryName)

\* recreateAllTables, stopped by an error of the driver before statement
\* `failAt` (1..4); failAt = 0: every statement runs
recreateAllTables(d, failAt) ==
  LET runs(k) == failAt = 0 \/ k < failAt
      d1 == IF runs(1) THEN CreateTableIfNotExists(d, "categories") ELSE d
      d2 == IF runs(2) THEN CreateTableIfNotExists(d1, "user_settings") ELSE d1
      d3 == IF runs(3) THEN CreateTableIfNotExists(d2, "files") ELSE d2
  IN  IF runs(4) THEN InsertOrIgnoreDefault(d3) ELSE d3

\* UPDATE files SET category_id = ? WHERE category_id IS NULL
AssignNullFiles(d, id) ==
  [d EXCEPT !.files =
     [i \in 1..Len(@) |->
        IF @[i].category_id = NullId THEN [@[i] EXCEPT !.category_id = id] ELSE @[i]]]

\* UPDATE user_settings SET current_category_id = ? WHERE current_category_id IS NULL
AssignNullSettings(d, id) ==
  [d EXCEPT !.user_settings =
     [i \in 1..Len(@) |->
        IF @[i].current_category_id = NullId
        THEN [@[i] EXCEPT !.current_category_id = id] ELSE @[i]]]

\* a lookup that never finds the default category
DefaultMissingAlways(d) == TRUE

\* the test `if (!defaultCategory)` of verification
DefaultMissing(d) == ~HasDefault(d)

NoNullCategoryRefs(d) ==
  /\ \A i \in 1..Len(d.files) : d.files[i].category_id # NullId
  /\ \A i \in 1..Len(d.user_settings) : d.user_settings[i].current_category_id # NullId

\* every required column of every required table is found by verification
SchemaCorrect(d) ==
  /\ d.tables = TableSet
  /\ \A t \in TableSet :
       \A i \in 1..Len(tableStructures[t]) : ColumnFound(d.cols[t], tableStructures[t][i])

----------------------------------------------------------------------------
(* fetch and initDatabase: one request at a time *)

maxRetries == 3

\* a loop test that lets a fourth attempt follow the third
MoreAttemptsOffByOne(attempt) == attempt <= maxRetries

\* `attempt < maxRetries`: another attempt follows a failed one
MoreAttempts(attempt) == attempt < maxRetries

Pow2(n) == IF n = 0 THEN 1 ELSE IF n = 1 THEN 2 ELSE IF n = 2 THEN 4 ELSE 8
Min(a, b) == IF a < b THEN a ELSE b

\* a backoff that starts from 2000 ms: 1000 * 2^attempt
DelayFromAttempt(attempt) == Min(1000 * Pow2(attempt), 5000)

\* Math.min(1000 * Math.pow(2, attempt - 1), 5000)
Delay(attempt) == Min(1000 * Pow2(attempt - 1), 5000)

BootIdle ==
  [pc |-> "idle",          \* where the request is in fetch/initDatabase
   n |-> 0,                \* requests started so far
   route |-> "none",       \* public | route | file
   attempt |-> 0,          \* the loop variable of initDatabase
   idx |-> 0,              \* the table the verification loop is at
   probes |-> 0,           \* history: liveness probes of this request
   log |-> <<>>,           \* history: the steps of the current attempt
   result |-> "none",      \* none | ok | throw: how initDatabase ended
   handlerRan |-> FALSE,   \* history: a route or file handler ran
   faulted |-> FALSE,      \* history: the driver failed a statement
   inserted |-> FALSE,     \* history: the bootstrap inserted the default category
   recheckFails |-> 0,     \* history: final re-reads that found no default category
   delay |-> 0,            \* the wait before the next attempt
   snap |-> BootstrappedDb,\* history: the store when the request began
   runs |-> <<>>,          \* history: one record per finished initDatabase
   ext |-> 0]              \* writes by other clients so far

FetchReq == [kind |-> "fetch", path |-> NoName, range |-> NoRange]

\* the record of a finished initDatabase on the bound store
RunRecord(b, dAfter, ok) ==
  [correct |-> SchemaCorrect(b.snap) /\ HasDefault(b.snap),
   faulted |-> b.faulted, ok |-> ok, same |-> dAfter = b.snap]

\* `return true` of initDatabase
Succeeded(b, dAfter) ==
  [b EXCEPT !.pc = "route", !.result = "ok",
            !.runs = Append(@, RunRecord(b, dAfter, TRUE))]

\* a catch block that gives up after the first failed attempt
AfterFailedAttemptNoRetry(b, dAfter) ==
  [b EXCEPT !.pc = "failed", !.result = "throw",
            !.runs = Append(@, RunRecord(b, dAfter, FALSE))]

\* a fetch that logs the error of initDatabase and goes on to the handler
AfterFailedAttemptSwallowed(b, dAfter) ==
  IF MoreAttempts(b.attempt)
  THEN [b EXCEPT !.pc = "backoff", !.delay = Delay(b.attempt)]
  ELSE [b EXCEPT !.pc = "route", !.result = "throw",
                 !.runs = Append(@, RunRecord(b, dAfter, FALSE))]

\* the catch block of the attempt loop for an error that is not 'no such
\* table': wait and go round again, or leave the loop and throw.  (The probe
\* SELECT 1 names no table and verification turns every error into `false`,
\* so no error with 'no such table' in its message reaches this catch.)
AfterFailedAttempt(b, dAfter) ==
  IF MoreAttempts(b.attempt)
  THEN [b EXCEPT !.pc = "backoff", !.delay = Delay(b.attempt)]
  ELSE [b EXCEPT !.pc = "failed", !.result = "throw",
                 !.runs = Append(@, RunRecord(b, dAfter, FALSE))]

Logged(b, step) == [b EXCEPT !.log = Append(@, step)]
Faulted(b) == [b EXCEPT !.faulted = TRUE]

RoutesIn == {"public", "route", "file"}

\* fetch up to the call of initDatabase.  Without a bound store the request
\* gets a new emulator, which initDatabase only initializes.
Fetch(route) ==
  LET b == [BootIdle EXCEPT !.n = boot.n + 1, !.route = route, !.runs = boot.runs,
                            !.ext = boot.ext, !.snap = db]
  IN  /\ boot.pc \in {"idle", "done"}
      /\ boot.n < MaxRequests
      /\ req' = FetchReq
      /\ resp' = NoResponse
      /\ mem' = IF env.database THEN mem
                ELSE IF route = "public" THEN NewEmulator
                ELSE ensureInitialized(NewEmulator)
      /\ boot' = IF route = "public" THEN [b EXCEPT !.pc = "route"]
                 ELSE IF ~env.database THEN [b EXCEPT !.pc = "route", !.result = "ok"]
                 ELSE [b EXCEPT !.pc = "probe", !.attempt = 1]
      /\ UNCHANGED <<env, db, bucket, tg, clock, uploads, served, uploaded>>

BootFrame == UNCHANGED <<env, bucket, tg, clock, uploads, served, uploaded, req, resp, mem>>

\* SELECT 1
Probe(fault) ==
  LET b == Logged([boot EXCEPT !.probes = @ + 1], "probe")
  IN  /\ boot.pc = "probe"
      /\ boot' = IF fault THEN AfterFailedAttempt(Faulted(b), db)
                 ELSE [b EXCEPT !.pc = "tables", !.idx = 1]
      /\ db' = db
      /\ BootFrame

\* SELECT 1 FROM <table> LIMIT 1, for one table of the loop; a missing table
\* makes verification recreate all tables and return true at once
CheckTable(fault, failAt) ==
  LET t == Tables[boot.idx]
      b == Logged(boot, "table")
      d == recreateAllTables(db, failAt)
  IN  /\ boot.pc = "tables"
      /\ IF fault
         THEN /\ failAt = 0
              /\ boot' = AfterFailedAttempt(Faulted(b), db)
              /\ db' = db
         ELSE IF t \notin db.tables
         THEN /\ db' = d
              /\ boot' = LET r == [Logged(b, "recreate") EXCEPT
                                     !.inserted = @ \/ (~HasDefault(db) /\ HasDefault(d))]
                         IN  IF failAt # 0 THEN AfterFailedAttempt(Faulted(r), d)
                             ELSE Succeeded(r, d)
         ELSE /\ failAt = 0
              /\ db' = db
              /\ boot' = IF boot.idx < Len(Tables) THEN [b EXCEPT !.idx = @ + 1]
                         ELSE [b EXCEPT !.pc = "columns", !.idx = 1]
      /\ BootFrame

\* PRAGMA table_info(<table>) and the ALTER TABLE ... ADD COLUMN of every
\* column not found, for one table of the loop
CheckColumns(fault) ==
  LET t == Tables[boot.idx]
      b == Logged(boot, "columns")
  IN  /\ boot.pc = "columns"
      /\ IF fault
         THEN /\ boot' = AfterFailedAttempt(Faulted(b), db)
              /\ db' = db
         ELSE /\ db' = [db EXCEPT !.cols[t] = AddMissing(@, tableStructures[t], 1)]
              /\ boot' = IF boot.idx < Len(Tables) THEN [b EXCEPT !.idx = @ + 1]
                         ELSE [b EXCEPT !.pc = "default"]
      /\ BootFrame

\* SELECT id FROM categories WHERE name = '默认分类'
CheckDefault(fault) ==
  LET b == Logged(boot, "default")
  IN  /\ boot.pc = "default"
      /\ boot' = IF fault THEN AfterFailedAttempt(Faulted(b), db)
                 ELSE IF DefaultMissing(db) THEN [b EXCEPT !.pc = "insert"]
                 ELSE [b EXCEPT !.pc = "recheck"]
      /\ db' = db
      /\ BootFrame

InsertFaults == {"none", "insert", "files", "settings"}

\* the insert of the default category and the reassignment of the rows with a
\* null category; the name column is UNIQUE, so the insert throws when the row
\* exists.  Any error here becomes 'cannot create the default category'.
InsertDefault(fault) ==
  LET b == Logged(boot, "insert")
      d1 == InsertCategory(db, DefaultCategoryName)
      newDefaultId == d1.seq.categories
      d2 == AssignNullFiles(d1, newDefaultId)
      d3 == AssignNullSettings(d2, newDefaultId)
      bi == [b EXCEPT !.inserted = TRUE]
  IN  /\ boot.pc = "insert"
      /\ IF HasDefault(db)
         THEN /\ fault = "none"
              /\ db' = db
              /\ boot' = AfterFailedAttempt(b, db)
         ELSE IF fault = "insert"
         THEN /\ db' = db
              /\ boot' = AfterFailedAttempt(Faulted(b), db)
         ELSE IF fault = "files"
         THEN /\ db' = d1
              /\ boot' = AfterFailedAttempt(Faulted(bi), d1)
         ELSE IF fault = "settings"
         THEN /\ db' = d2
              /\ boot' = AfterFailedAttempt(Faulted(bi), d2)
         ELSE /\ db' = d3
              /\ boot' = [bi EXCEPT !.pc = "recheck"]
      /\ BootFrame

\* the final re-read of the default category
Recheck(fault) ==
  LET b == Logged(boot, "recheck")
  IN  /\ boot.pc = "recheck"
      /\ boot' = IF fault THEN AfterFailedAttempt(Faulted(b), db)
                 ELSE IF ~HasDefault(db)
                 THEN AfterFailedAttempt([b EXCEPT !.recheckFails = @ + 1], db)
                 ELSE Succeeded(b, db)
      /\ db' = db
      /\ BootFrame

\* the wait before the next attempt is over
Backoff ==
  /\ boot.pc = "backoff"
  /\ boot' = [boot EXCEPT !.pc = "probe", !.attempt = @ + 1, !.log = <<>>]
  /\ db' = db
  /\ BootFrame

\* fetch's catch of the error initDatabase threw
InitFailed ==
  /\ boot.pc = "failed"
  /\ boot' = [boot EXCEPT !.pc = "done"]
  /\ resp' = Response(500, <<>>, {<<"Content-Type", "text/plain;charset=UTF-8">>,
                                  <<"Cache-Control", "no-store">>}, "init-failed")
  /\ UNCHANGED <<env, db, bucket, tg, clock, uploads, served, uploaded, req, mem>>

\* the route handler, or the file handler for a path that is no route
RunHandler ==
  /\ boot.pc = "route"
  /\ boot' = [boot EXCEPT !.pc = "done", !.handlerRan = TRUE]
  /\ resp' = Response(200, <<>>, {}, "handler")
  /\ UNCHANGED <<env, db, bucket, tg, clock, uploads, served, uploaded, req, mem>>

\* another client of the bound store (it is shared with every other isolate
\* and with the database console) deletes the default category
ExternalDeleteDefault ==
  /\ env.database
  /\ boot.ext < MaxExternal
  /\ HasDefault(db)
  /\ db' = [db EXCEPT !.categories =
              SelectSeq(@, LAMBDA c : c.name # DefaultCategoryName)]
  /\ boot' = [boot EXCEPT !.ext = @ + 1]
  /\ BootFrame

\* Stores a deployment can hold when a request arrives: any subset of the
\* tables, each as recreateAllTables declares it or as an earlier schema of
\* the program declared it, with or without rows that predate categories.
LegacyColumns(t) ==
  IF t = "categories"
  THEN {[name |-> "id", type |-> "INTEGER"], [name |-> "name", type |-> "TEXT"],
        [name |-> "created_at", type |-> "INTEGER"]}
  ELSE IF t = "user_settings"
  THEN {[name |-> "id", type |-> "INTEGER"], [name |-> "chat_id", type |-> "TEXT"],
        [name |-> "storage_type", type |-> "TEXT"], [name |-> "category_id", type |-> "INTEGER"],
        [name |-> "custom_suffix", type |-> "TEXT"], [name |-> "waiting_for", type |-> "TEXT"],
        [name |-> "editing_file_id", type |-> "TEXT"], [name |-> "created_at", type |-> "DATETIME"]}
  ELSE CreatedColumns("files") \ {[name |-> "chat_id", type |-> "TEXT"]}

OtherCategoryName == "other"

CategoryRowsInputs ==
  {<<>>,
   <<[id |-> 1, name |-> DefaultCategoryName]>>,
   <<[id |-> 1, name |-> OtherCategoryName]>>,
   <<[id |-> 1, name |-> OtherCategoryName], [id |-> 2, name |-> DefaultCategoryName]>>}

\* a file row and a settings row whose category reference is NULL
UncategorizedFile ==
  [id |-> 1, url |-> UrlOf(<<1, "bin">>), fileId |-> TgFileId(1), message_id |-> 1,
   file_name |-> <<90, "bin">>, file_size |-> 1, mime_type |-> "application/octet-stream",
   storage_type |-> "telegram", category_id |-> NullId]
UnsetSetting ==
  [id |-> 1, chat_id |-> "owner", storage_type |-> "telegram", current_category_id |-> NullId,
   waiting_for |-> "NULL", editing_file_id |-> 0]

InitialStores ==
  {[tables |-> ts,
    cols |-> [t \in TableSet |-> IF t \notin ts THEN {}
                                 ELSE IF t \in legacy THEN LegacyColumns(t)
                                 ELSE CreatedColumns(t)],
    categories |-> cs,
    user_settings |-> IF hasSetting THEN <<UnsetSetting>> ELSE <<>>,
    files |-> IF hasFile THEN <<UncategorizedFile>> ELSE <<>>,
    seq |-> [categories |-> Len(cs),
             user_settings |-> IF hasSetting THEN 1 ELSE 0,
             files |-> IF hasFile THEN 1 ELSE 0]] :
     <<ts, legacy, cs, hasSetting, hasFile>> \in
       {x \in (SUBSET TableSet) \X (SUBSET TableSet) \X CategoryRowsInputs \X BOOLEAN \X BOOLEAN :
          /\ x[2] \subseteq x[1]
          /\ "categories" \notin x[1] => x[3] = <<>>
          /\ "user_settings" \notin x[1] => ~x[4]
          /\ "files" \notin x[1] => ~x[5]}}

InitBoot ==
  /\ env \in [bucket : {TRUE}, tg : {TRUE}, database : BOOLEAN]
  /\ db \in (IF env.database THEN InitialStores ELSE {BootstrappedDb})
  /\ bucket = EmptyBucket
  /\ tg = <<>>
  /\ clock = 1
  /\ uploads = 0
  /\ served = 0
  /\ uploaded = {}
  /\ req = FetchReq
  /\ resp = NoResponse
  /\ boot = BootIdle
  /\ mem = NewEmulator

NextBoot ==
  \/ \E route \in RoutesIn : Fetch(route)
  \/ \E fault \in BOOLEAN : Probe(fault)
  \/ \E fault \in BOOLEAN, failAt \in 0..4 : CheckTable(fault, failAt)
  \/ \E fault \in BOOLEAN : CheckColumns(fault)
  \/ \E fault \in BOOLEAN : CheckDefault(fault)
  \/ \E fault \in InsertFaults : InsertDefault(fault)
  \/ \E fault \in BOOLEAN : Recheck(fault)
  \/ Backoff
  \/ InitFailed
  \/ RunHandler

SpecBoot == InitBoot /\ [][NextBoot]_vars

\* the same requests on a store of the required schema, while other clients
\* write to it
InitBootEnv == InitBoot /\ (env.database => SchemaCorrect(db))

NextBootEnv == NextBoot \/ ExternalDeleteDefault

SpecBootEnv == InitBootEnv /\ [][NextBootEnv]_vars

----------------------------------------------------------------------------
(* Upload handlers (handleUploadRequest) *)

OwnerChat == "owner"      \* config.tgChatId[0]

UploadReq == [kind |-> "upload", path |-> NoName, range |-> NoRange]

UploadOk(url) ==
  [status |-> 200, body |-> <<>>, headers |-> {}, via |-> "upload", location |-> url]

UploadFailed(status) == Response(status, <<>>, {}, "upload")

\* the default-category lookup of the upload handlers: read it, insert it when
\* it is absent
WithDefault(d) == IF HasDefault(d) THEN d ELSE InsertCategory(d, DefaultCategoryName)

\* categoryId || (defaultCategory ? defaultCategory.id : null)
FinalCategoryId(d, categoryId) ==
  IF categoryId # NullId THEN categoryId ELSE CategoryByName(d, DefaultCategoryName).id

\* The form upload (POST): user_settings update, the write to the chosen blob
\* store, then the files row.  sends is the number of sendDocument calls the
\* transport refuses (0, 1 or 2); the handler makes at most two.
UploadForm(name, len, storageType, categoryId, putOk, sends) ==
  LET now == clock
      body == BodyOf(uploads + 1, len)
      d1 == WithDefault(db)
      finalCategoryId == FinalCategoryId(d1, categoryId)
      d2 == UpdateSettingStorage(d1, storageType, finalCategoryId, OwnerChat)
      ext == ToLowerCase(ExtOf(name))
      mimeType == getContentType(ext)
      key == KeyOf(now, ext)
      row(fileId, messageId) ==
        [url |-> UrlOf(key), fileId |-> fileId, message_id |-> messageId,
         file_name |-> name, file_size |-> Len(body), mime_type |-> mimeType,
         storage_type |-> storageType, category_id |-> finalCategoryId]
      stored == IF storageType = "r2" THEN env.bucket /\ putOk
                ELSE env.tg /\ sends < 2
  IN  /\ uploads < MaxUploads
      /\ uploads' = uploads + 1
      /\ req' = UploadReq
      /\ IF ~stored
         THEN /\ db' = d2
              /\ resp' = UploadFailed(500)
              /\ UNCHANGED <<bucket, tg, uploaded>>
         ELSE /\ IF storageType = "r2"
                 THEN /\ bucket' = BucketPut(bucket, key, body, mimeType)
                      /\ db' = InsertFile(d2, row(key, -1))
                      /\ tg' = tg
                 ELSE /\ tg' = TgSend(tg, body)
                      /\ db' = InsertFile(d2, row(TgFileId(Len(tg) + 1), Len(tg) + 1))
                      /\ bucket' = bucket
              /\ resp' = UploadOk(UrlOf(key))
              /\ uploaded' = uploaded \cup {[path |-> key, body |-> body]}
      /\ UNCHANGED <<env, clock, served, boot, mem>>

\* The PUT upload: the body goes to the bucket first, under `${now}.${ext}`;
\* for storage_type telegram the transport is then told to pull that URL, the
\* bucket object is kept, and the record is filed under `${now + 1}.${ext}`.
UploadPut(name, len, storageType, categoryId, size, putOk, sendOk) ==
  LET now == clock
      body == BodyOf(uploads + 1, len)
      ext == ToLowerCase(IF ExtOf(name) # "" THEN ExtOf(name) ELSE "bin")
      mimeType == getContentType(ext)
      key == KeyOf(now, ext)
      b1 == BucketPut(bucket, key, body, mimeType)
      d1 == WithDefault(db)
      finalCategoryId == FinalCategoryId(d1, categoryId)
      d2 == UpdateSettingStorage(d1, storageType, finalCategoryId, OwnerChat)
      altKey == KeyOf(now + 1, ext)
      row(url, fileId, messageId, st) ==
        [url |-> url, fileId |-> fileId, message_id |-> messageId,
         file_name |-> IF name # NoName THEN name ELSE key,
         file_size |-> size, mime_type |-> mimeType,
         storage_type |-> st, category_id |-> finalCategoryId]
  IN  /\ uploads < MaxUploads
      /\ size \in {0, Len(body)}
      /\ uploads' = uploads + 1
      /\ req' = UploadReq
      /\ IF ~env.bucket \/ ~putOk
         THEN /\ resp' = UploadFailed(500)
              /\ UNCHANGED <<db, bucket, tg, uploaded>>
         ELSE /\ bucket' = b1
              /\ IF storageType = "telegram"
                 THEN IF env.tg /\ sendOk
                      THEN /\ tg' = TgSend(tg, body)
                           /\ db' = InsertFile(d2, row(UrlOf(altKey), TgFileId(Len(tg) + 1),
                                                       Len(tg) + 1, "telegram"))
                           /\ resp' = UploadOk(UrlOf(altKey))
                           /\ uploaded' = uploaded \cup {[path |-> altKey, body |-> body]}
                      ELSE /\ db' = d2
                           /\ resp' = UploadFailed(500)
                           /\ UNCHANGED <<tg, uploaded>>
                 ELSE IF storageType # "r2"
                      THEN /\ db' = d2
                           /\ resp' = UploadFailed(400)
                           /\ UNCHANGED <<tg, uploaded>>
                      ELSE /\ db' = InsertFile(d2, row(UrlOf(key), key, -1, storageType))
                           /\ resp' = UploadOk(UrlOf(key))
                           /\ uploaded' = uploaded \cup {[path |-> key, body |-> body]}
                           /\ tg' = tg
      /\ UNCHANGED <<env, clock, served, boot, mem>>

\* time passes between requests
Tick ==
  /\ clock < MaxTime
  /\ clock' = clock + 1
  /\ UNCHANGED <<env, db, bucket, tg, uploads, served, uploaded, req, resp, boot, mem>>

----------------------------------------------------------------------------
(* File requests *)

UnknownPath == <<99, "bin">>

\* the paths worth requesting: every key, URL path, locator and display name
\* the stores hold, and one path nothing holds
PathInputs ==
  DOMAIN bucket
    \cup {db.files[i].url.path : i \in 1..Len(db.files)}
    \cup {db.files[i].fileId : i \in 1..Len(db.files)}
    \cup {db.files[i].file_name : i \in 1..Len(db.files)}
    \cup {UnknownPath}

FileRequest(path, range, fault) ==
  /\ served < MaxServed
  /\ served' = served + 1
  /\ req' = [kind |-> "file", path |-> path, range |-> range]
  /\ resp' = handleFileRequest(db, bucket, tg, env, path, range, fault)
  /\ UNCHANGED <<env, db, bucket, tg, clock, uploads, uploaded, boot, mem>>

InitFile ==
  /\ env \in [bucket : BOOLEAN, tg : BOOLEAN, database : {TRUE}]
  /\ db = BootstrappedDb
  /\ bucket = EmptyBucket
  /\ tg = <<>>
  /\ clock = 1
  /\ uploads = 0
  /\ served = 0
  /\ uploaded = {}
  /\ req = UploadReq
  /\ resp = NoResponse
  /\ boot = BootIdle
  /\ mem = NewEmulator

NextFile ==
  \/ Tick
  \/ \E name \in FileNames, len \in 1..MaxLen, st \in StorageTypeInputs,
        cat \in {NullId}, putOk \in BOOLEAN, sends \in 0..2 :
       UploadForm(name, len, st, cat, putOk, sends)
  \/ \E name \in FileNames \cup {NoName}, len \in 1..MaxLen, st \in StorageTypeInputs,
        cat \in {NullId}, size \in 0..MaxLen, putOk \in BOOLEAN, sendOk \in BOOLEAN :
       UploadPut(name, len, st, cat, size, putOk, sendOk)
  \/ \E path \in PathInputs, range \in RangeInputs, fault \in FetchFaults :
       FileRequest(path, range, fault)

SpecFile == InitFile /\ [][NextFile]_vars

----------------------------------------------------------------------------
(* Properties of the file request handler *)

\* the last request was a file request for a file that an upload stored, and
\* the handler answered with file bytes
ServedUpload(u) ==
  /\ req.kind = "file"
  /\ req.path = u.path
  /\ resp.status \in {200, 206}

\* bytes a..b (0-based, inclusive) of a body
Slice(body, a, b) == SubSeq(body, a + 1, b + 1)

\* the range a-b of the request lies inside a body of the given size
ValidRange(r, size) ==
  /\ r.present
  /\ r.end # -1
  /\ 0 <= r.start /\ r.start <= r.end /\ r.end < size

\* the range of the request cannot be satisfied: its start is at or past the
\* end of the body, or its end is before its start
UnsatisfiableRange(r, size) ==
  /\ r.present
  /\ \/ r.start >= size
     \/ r.end # -1 /\ r.end < r.start

\* C1: a request with `Range: bytes=a-b`, 0 <= a <= b < T, for a stored file
\* of size T is answered with status 206 and exactly bytes a..b of the file.
C1_RangeRequestYieldsSlice ==
  \A u \in uploaded :
    ServedUpload(u) /\ ValidRange(req.range, Len(u.body))
      => /\ resp.status = 206
         /\ resp.body = Slice(u.body, req.range.start, req.range.end)

\* C2: a request whose Range start lies beyond the file's size, or whose
\* numeric range is malformed, is never answered with 200 or 206 (it is
\* answered with 416).
C2_UnsatisfiableRangeRejected ==
  \A u \in uploaded :
    req.kind = "file" /\ req.path = u.path
      /\ UnsatisfiableRange(req.range, Len(u.body))
      => resp.status \notin {200, 206}

\* C3: every response that streams file bytes (bucket by path, bucket by
\* locator, transport) carries `Accept-Ranges: bytes`.
C3_AcceptRangesOnStreams ==
  resp.via \in {"bucket-path", "bucket-locator", "transport"}
    => <<"Accept-Ranges", "bytes">> \in resp.headers

\* some files row resolves the path: by URL, by locator or by display name
RowResolves(path) ==
  \E i \in 1..Len(db.files) :
    \/ db.files[i].url = UrlOf(path)
    \/ db.files[i].fileId = path
    \/ db.files[i].file_name = path

\* C4: a file request whose path no metadata row resolves is answered with
\* 404 and serves no bytes, whatever the bucket holds.
C4_NoRowMeans404 ==
  req.kind = "file" /\ ~RowResolves(req.path)
    => resp.status = 404 /\ resp.body = <<>>

ChunkedTypes == {"r2_chunk", "telegram_chunk"}

\* the files row of an upload is tagged with a chunked storage backend
IsChunkedUpload(u) ==
  \E i \in 1..Len(db.files) :
    db.files[i].url = UrlOf(u.path) /\ db.files[i].storage_type \in ChunkedTypes

\* C5: for a chunked file the bytes emitted are the needed parts of its
\* chunks in index order: the whole body without a Range header, bytes a..b
\* with a valid one.
C5_ChunkedBytesInOrder ==
  \A u \in uploaded :
    req.kind = "file" /\ req.path = u.path /\ IsChunkedUpload(u)
      => /\ ~req.range.present => resp.body = u.body
         /\ ValidRange(req.range, Len(u.body))
              => resp.body = Slice(u.body, req.range.start, req.range.end)

----------------------------------------------------------------------------
(* Properties of the bootstrap *)

\* C6: initDatabase run twice in a row on a store whose schema is correct and
\* which holds the default category leaves the store as it was both times,
\* and returns success each time the driver fails no statement.
C6_BootstrapIdempotent ==
  \A i \in 1..Len(boot.runs) :
    boot.runs[i].correct
      => /\ boot.runs[i].same
         /\ (~boot.runs[i].faulted => boot.runs[i].ok)
         /\ (i < Len(boot.runs) => boot.runs[i + 1].correct)

\* two runs in a row on a correct store, no statement failed, both succeeded
C6_Witness ==
  /\ Len(boot.runs) = 2
  /\ \A i \in 1..2 : /\ boot.runs[i].correct /\ ~boot.runs[i].faulted
                     /\ boot.runs[i].ok /\ boot.runs[i].same

\* C7: when every attempt fails, initDatabase has made exactly maxRetries (3)
\* attempts when it throws; the request is answered with 500 and no handler
\* runs for it.  No attempt beyond the third is ever started.
C7_ThreeAttemptsThenFatal ==
  /\ boot.attempt <= maxRetries
  /\ boot.probes <= maxRetries
  /\ (boot.pc = "backoff" => boot.attempt < maxRetries)
  /\ (boot.result = "throw"
       => /\ boot.attempt = maxRetries
          /\ boot.probes = maxRetries
          /\ ~boot.handlerRan
          /\ boot.pc \in {"failed", "done"}
          /\ (boot.pc = "done" => resp.status = 500))

\* three attempts failed and the request was answered
C7_Witness ==
  /\ boot.result = "throw"
  /\ boot.pc = "done"
  /\ boot.probes = 3
  /\ resp.status = 500

\* C8 as stated: once the final re-read has found no default category, the
\* bootstrap has failed and makes no further attempt.
C8_RecheckFailureIsFinal ==
  boot.recheckFails > 0 => boot.pc \in {"failed", "done"} /\ boot.result = "throw"

\* C8 as the code behaves: a final re-read that finds no default category
\* fails the attempt like any other error of verification.  Before the third
\* attempt the bootstrap waits Delay(attempt) and starts the next attempt with
\* a new liveness probe; only in the third attempt does it throw.
C8_RecheckFailureRetries ==
  [][/\ (boot'.recheckFails = boot.recheckFails + 1
          => /\ boot.pc = "recheck"
             /\ IF boot.attempt < maxRetries
                THEN /\ boot'.pc = "backoff"
                     /\ boot'.result = "none"
                     /\ boot'.delay = Delay(boot.attempt)
                ELSE /\ boot'.pc = "failed"
                     /\ boot'.result = "throw")
      /\ (boot.pc = "backoff"
          => \/ boot'.pc = "probe" /\ boot'.attempt = boot.attempt + 1
             \/ boot'.pc = "backoff")]_vars

\* the re-read of the first attempt found no default category, and the second
\* attempt has made its liveness probe
C8_Witness ==
  /\ boot.recheckFails = 1
  /\ boot.attempt = 2
  /\ boot.probes = 2
  /\ boot.pc = "tables"

\* C9: when initDatabase has returned success on a bound store, the default
\* category exists, and if this bootstrap inserted it no files row and no
\* user_settings row has a NULL category reference.
C9_DefaultCategoryAndNoNullRefs ==
  env.database /\ boot.result = "ok"
    => /\ HasDefault(db)
       /\ (boot.inserted => NoNullCategoryRefs(db))

\* the step `later` comes after the step `earlier` in the log of the attempt
StepAfter(log, earlier, later) ==
  \E i, j \in 1..Len(log) : i < j /\ log[i] = earlier /\ log[j] = later

\* C10: when verification found a table missing and recreated the tables,
\* success is reported only after the column checks and the default-category
\* check have run again.
C10_RecreateThenReverify ==
  boot.result = "ok" /\ (\E i \in 1..Len(boot.log) : boot.log[i] = "recreate")
    => /\ StepAfter(boot.log, "recreate", "columns")
       /\ StepAfter(boot.log, "recreate", "default")
       /\ StepAfter(boot.log, "recreate", "recheck")

----------------------------------------------------------------------------
(* Category handlers (handleCreateCategoryRequest, handleDeleteCategoryRequest)
   and the category steps of the webhook, over the store of the request *)

MaxCategoryRequests == 3   \* category and webhook requests per behaviour
MaxCategoryUploads == 1    \* uploads per behaviour between them
MaxCategoryId == 2         \* largest category id a client sends

\* category names a client may send
Blank == " "
PaddedDefault == " default "
CategoryNameInputs == {"", Blank, DefaultCategoryName, PaddedDefault, OtherCategoryName}

\* String.prototype.trim on those names
Trim(n) == IF n = Blank THEN "" ELSE IF n = PaddedDefault THEN DefaultCategoryName ELSE n

\* ids a client may send: numbers and strings of digits
CategoryIdInputs == {JsNum(n) : n \in 0..MaxCategoryId} \cup {JsStr(n) : n \in 1..MaxCategoryId}

\* !id || isNaN(id), for a number or a string of digits
InvalidId(id) == id.t = "number" /\ id.v = 0

\* an emulator that the isolate keeps from one request to the next
StoreOfRequestKept ==
  IF env.database THEN D1(db) ELSE Emulator(ensureInitialized(mem))

\* config.database of a request: the bound store, or a new emulator that
\* initDatabase has initialized
StoreOfRequest ==
  IF env.database THEN D1(db) ELSE Emulator(ensureInitialized(NewEmulator))

\* config.database of a request for a public path, which skips initDatabase:
\* the bound store, or a new emulator nothing has initialized
StoreOfPublicRequest == IF env.database THEN D1(db) ELSE Emulator(NewEmulator)

\* what a handler leaves behind: the store and the status of its response
Outcome(st, status) == [st |-> st, status |-> status]

\* a statement the handler does not issue
NoRun(st) == [st |-> st, meta |-> 0, error |-> FALSE]

\* handleCreateCategoryRequest.  failAt names the statement the driver fails
\* (1 the lookup, 2 the insert, 3 the re-read), 0 for none.  The statements
\* run in the order of the source, each on the store the one before left
\* (read the bindings from the last line up).
handleCreateCategoryRequest(st, name, now, failAt) ==
  IF name = "" \/ Trim(name) = "" THEN Outcome(st, 400)
  ELSE IF failAt = 1 THEN Outcome(st, 500)
  ELSE
    Val({IF existingCategory.row # NoRow THEN Outcome(existingCategory.st, 400)
         ELSE IF failAt = 2 THEN Outcome(existingCategory.st, 500)
         ELSE
           Val({IF inserted.error THEN Outcome(existingCategory.st, 500)
                ELSE IF failAt = 3 THEN Outcome(inserted.st, 500)
                ELSE
                  Val({IF category.row = NoRow THEN Outcome(category.st, 500)
                       ELSE Outcome(category.st, 200) :
                         category \in {FirstRow(inserted.st, CategorySql.SelectCategoryIdByName,
                                                <<Trim(name)>>)}}) :
                  inserted \in {Run(existingCategory.st, CategorySql.InsertCategoryStmt,
                                    <<Trim(name), now>>)}}) :
           existingCategory \in {FirstRow(st, CategorySql.SelectCategoryIdByName,
                                          <<Trim(name)>>)}})

\* a lookup that never finds the default category
isDefaultCategoryNever(st, id) ==
  [st |-> FirstRow(st, CategorySql.SelectCategoryByIdAndName, <<id, DefaultCategoryName>>).st,
   row |-> NoRow]

\* SELECT id FROM categories WHERE id = ? AND name = ? bound to (id, '默认分类')
isDefaultCategory(st, id) ==
  FirstRow(st, CategorySql.SelectCategoryByIdAndName, <<id, DefaultCategoryName>>)

\* a reassignment target that is always null
defaultCategoryIdNull(defaultCategory, result) == NullId

\* defaultCategoryId: the id read, or last_row_id of the insert, or null
defaultCategoryIdOf(defaultCategory, result) ==
  IF defaultCategory = NoRow
  THEN (IF result.meta # 0 THEN result.meta ELSE NullId)
  ELSE defaultCategory.id

\* handleDeleteCategoryRequest from the reassignment on (lines 2055-2064)
reassignAndDelete(st, id, defaultCategoryId, failAt) ==
  IF failAt = 5 THEN Outcome(st, 500)
  ELSE
    Val({IF failAt = 6 THEN Outcome(files.st, 500)
         ELSE
           Val({IF failAt = 7 THEN Outcome(settings.st, 500)
                ELSE Outcome(Run(settings.st, CategorySql.DeleteCategoryById, <<id>>).st, 200) :
                  settings \in
                    {IF defaultCategoryId # NullId
                     THEN Run(files.st, CategorySql.UpdateSettingsCategory,
                              <<JsNum(defaultCategoryId), id>>)
                     ELSE Run(files.st, CategorySql.UpdateSettingsCategoryNull, <<id>>)}}) :
           files \in
             {IF defaultCategoryId # NullId
              THEN Run(st, CategorySql.UpdateFilesCategory, <<JsNum(defaultCategoryId), id>>)
              ELSE Run(st, CategorySql.UpdateFilesCategoryNull, <<id>>)}})

\* handleDeleteCategoryRequest.  failAt names the statement the driver fails:
\* 1 the default test, 2 the category lookup, 3 the default lookup, 4 the
\* insert of a missing default, 5 the files update, 6 the user_settings
\* update, 7 the delete; 0 for none.
handleDeleteCategoryRequest(st, id, now, failAt) ==
  IF InvalidId(id) THEN Outcome(st, 400)
  ELSE IF failAt = 1 THEN Outcome(st, 500)
  ELSE
    Val({IF isDefault.row # NoRow THEN Outcome(isDefault.st, 403)
         ELSE IF failAt = 2 THEN Outcome(isDefault.st, 500)
         ELSE
           Val({IF category.row = NoRow THEN Outcome(category.st, 404)
                ELSE IF failAt = 3 THEN Outcome(category.st, 500)
                ELSE
                  Val({IF defaultCategory.row = NoRow /\ failAt = 4
                       THEN Outcome(defaultCategory.st, 500)
                       ELSE
                         Val({IF result.error THEN Outcome(defaultCategory.st, 500)
                              ELSE reassignAndDelete(
                                     result.st, id,
                                     defaultCategoryIdOf(defaultCategory.row, result), failAt) :
                                result \in
                                  {IF defaultCategory.row = NoRow
                                   THEN Run(defaultCategory.st, CategorySql.InsertCategoryStmt,
                                            <<DefaultCategoryName, now>>)
                                   ELSE NoRun(defaultCategory.st)}}) :
                         defaultCategory \in
                           {FirstRow(category.st, CategorySql.SelectCategoryIdByName,
                                     <<DefaultCategoryName>>)}}) :
                  category \in {FirstRow(isDefault.st, CategorySql.SelectCategoryNameById,
                                         <<id>>)}}) :
           isDefault \in {isDefaultCategory(st, id)}})

\* a webhook that reads the settings row of the chat and inserts none
userSettingOfNoInsert(st, chatId, now) ==
  Val({[st |-> found.st,
        userSetting |->
          IF found.row # NoRow THEN found.row
          ELSE [chat_id |-> chatId, storage_type |-> "r2", current_category_id |-> NullId,
                waiting_for |-> NullText, editing_file_id |-> NullId]] :
         found \in {FirstRow(st, SettingSql.SelectSettingByChat, <<chatId>>)}})

\* The webhook up to the dispatch on the update (lines 862-882): the settings
\* row of the chat is read, and for a new chat the default category is looked
\* up (and inserted when absent) and a settings row is inserted.
userSettingOf(st, chatId, now) ==
  Val({IF found.row # NoRow THEN [st |-> found.st, userSetting |-> found.row]
       ELSE
         Val({Val({Val({Val({[st |-> inserted.st,
                         userSetting |->
                           [chat_id |-> chatId, storage_type |-> "r2",
                            current_category_id |-> defaultCategoryId,
                            waiting_for |-> NullText, editing_file_id |-> NullId]] :
                          inserted \in {Run(result.st, SettingSql.InsertSettingStmt,
                                            <<chatId, "r2", defaultCategoryId>>)}}) :
                     defaultCategoryId \in
                       {IF defaultCategory.row # NoRow THEN defaultCategory.row.id
                        ELSE IF result.error THEN NullId ELSE result.meta}}) :
                result \in
                  {IF defaultCategory.row = NoRow
                   THEN Run(defaultCategory.st, CategorySql.InsertCategoryStmt,
                            <<DefaultCategoryName, now>>)
                   ELSE NoRun(defaultCategory.st)}}) :
           defaultCategory \in
             {FirstRow(found.st, CategorySql.SelectCategoryIdByName, <<DefaultCategoryName>>)}}) :
         found \in {FirstRow(st, SettingSql.SelectSettingByChat, <<chatId>>)}})

\* The reply to 'new_category' (lines 887-911): the text, trimmed, becomes a
\* category unless one of that name exists; waiting_for is cleared.
webhookNewCategory(st, chatId, text, now) ==
  Val({Run(IF existingCategory.row # NoRow THEN existingCategory.st
           ELSE
             Val({IF inserted.error THEN inserted.st
                  ELSE
                    Val({IF newCategory.row = NoRow THEN newCategory.st
                         ELSE Run(newCategory.st, SettingSql.UpdateSettingCategoryClearWaiting,
                                  <<newCategory.row.id, chatId>>).st :
                           newCategory \in
                             {FirstRow(inserted.st, CategorySql.SelectCategoryIdByName,
                                       <<Trim(text)>>)}}) :
                    inserted \in {Run(existingCategory.st, CategorySql.InsertCategoryStmt,
                                      <<Trim(text), now>>)}}),
           SettingSql.ClearSettingWaiting, <<chatId>>).st :
         existingCategory \in
           {FirstRow(st, CategorySql.SelectCategoryIdByName, <<Trim(text)>>)}})

\* a message with text (lines 886-912 of the dispatch; other texts change no
\* category)
webhookText(st0, chatId, text, now) ==
  Val({IF u.userSetting.waiting_for = "new_category" /\ text # ""
       THEN webhookNewCategory(u.st, chatId, text, now)
       ELSE u.st :
         u \in {userSettingOf(st0, chatId, now)}})

\* callback data of the panel buttons that write user_settings
CallbackInputs == {"switch_storage", "create_category", "set_category", "edit_suffix_input"}

\* the pending input survives the button (lines 1363-1368)
KeepsWaiting(userSetting, cbData) ==
  \/ userSetting.waiting_for = NullText
  \/ userSetting.waiting_for = "new_category" /\ cbData = "create_category"
  \/ userSetting.waiting_for = "delete_file_input" /\ cbData = "delete_file_input"
  \/ userSetting.waiting_for = "edit_suffix_input_file" /\ cbData = "edit_suffix_input"
  \/ userSetting.waiting_for = "edit_suffix_input_new" /\ userSetting.editing_file_id # NullId

\* handleCallbackQuery for those buttons; k is the id in `set_category_${k}`
webhookCallback(st0, chatId, cbData, k, now) ==
  Val({Val({CASE cbData = "switch_storage" ->
                   Run(st1, SettingSql.UpdateSettingStorageOnly,
                       <<IF u.userSetting.storage_type = "r2" THEN "telegram" ELSE "r2",
                         chatId>>).st
              [] cbData = "create_category" ->
                   Run(st1, SettingSql.UpdateSettingWaiting, <<"new_category", chatId>>).st
              [] cbData = "set_category" ->
                   Run(st1, SettingSql.UpdateSettingCategoryOnly, <<k, chatId>>).st
              [] cbData = "edit_suffix_input" ->
                   Run(st1, SettingSql.UpdateSettingWaiting,
                       <<"edit_suffix_input_file", chatId>>).st
              [] cbData = "delete_file_input" ->
                   Run(st1, SettingSql.UpdateSettingWaiting,
                       <<"delete_file_input", chatId>>).st
              [] OTHER -> st1 :
              st1 \in {IF KeepsWaiting(u.userSetting, cbData) THEN u.st
                       ELSE Run(u.st, SettingSql.ClearSettingWaitingAndEditing,
                                <<chatId>>).st}}) :
         u \in {userSettingOf(st0, chatId, now)}})

\* the rows of config.database after a request
StoreAfter == IF env.database THEN db' ELSE mem'

\* the category id a request names, sent as a number or as a string of digits
IdNamed(id) == id.v

\* history: how many files rows and user_settings rows of a store reference
\* the category a delete-category request names
RefsTo(s, kind, arg) ==
  IF kind # "delete-category" THEN [files |-> 0, user_settings |-> 0]
  ELSE [files |-> Cardinality({i \in 1..Len(s.files) : s.files[i].category_id = IdNamed(arg)}),
        user_settings |->
          Cardinality({i \in 1..Len(s.user_settings) :
                         s.user_settings[i].current_category_id = IdNamed(arg)})]

CategoryReq(kind, arg, failAt) ==
  [kind |-> kind, arg |-> arg, failAt |-> failAt, path |-> NoName, range |-> NoRange,
   refs |-> RefsTo(StoreOfRequest.s, kind, arg)]

\* a request whose handler leaves the store st behind and answers with status
CategoryStep(kind, arg, failAt, st, status) ==
  /\ served < MaxCategoryRequests
  /\ served' = served + 1
  /\ \E r \in {CategoryReq(kind, arg, failAt)} : req' = r
  /\ resp' = Response(status, <<>>, {}, kind)
  /\ db' = IF env.database THEN st.s ELSE db
  /\ mem' = IF env.database THEN mem ELSE st.s
  /\ UNCHANGED <<env, bucket, tg, clock, uploads, uploaded, boot>>

\* POST /create-category.  The emulator fails no statement.
CreateCategory(name, failAt) ==
  /\ env.database \/ failAt = 0
  /\ \E out \in {handleCreateCategoryRequest(StoreOfRequest, name, clock, failAt)} :
       CategoryStep("create-category", name, failAt, out.st, out.status)

\* POST /delete-category
DeleteCategory(id, failAt) ==
  /\ env.database \/ failAt = 0
  /\ \E out \in {handleDeleteCategoryRequest(StoreOfRequest, id, clock, failAt)} :
       CategoryStep("delete-category", id, failAt, out.st, out.status)

\* POST /webhook with a text message of the owner.  The webhook is a public
\* path: initDatabase is skipped, so without a bound store the handler works
\* on an emulator nothing has initialized.
WebhookText(text) ==
  \E st \in {webhookText(StoreOfPublicRequest, OwnerChat, text, clock)} :
    CategoryStep("webhook-text", text, 0, st, 200)

\* POST /webhook with a callback query of the owner
WebhookCallback(cbData, k) ==
  \E st \in {webhookCallback(StoreOfPublicRequest, OwnerChat, cbData, k, clock)} :
    CategoryStep("webhook-callback", <<cbData, k>>, 0, st, 200)

\* The form upload on the emulator of the request (storage_type r2, the put
\* succeeds): the statements of lines 2120-2180.
EmulatorUpload(name, len, categoryId) ==
  LET body == BodyOf(uploads + 1, len)
      ext == ToLowerCase(ExtOf(name))
      key == KeyOf(clock, ext)
  IN  /\ ~env.database
      /\ env.bucket
      /\ uploads < MaxUploads
      /\ uploads' = uploads + 1
      /\ req' = UploadReq
      /\ bucket' = BucketPut(bucket, key, body, getContentType(ext))
      /\ \E defaultCategory \in
              {FirstRow(StoreOfRequest, CategorySql.SelectCategoryIdByName,
                        <<DefaultCategoryName>>)} :
           \E result \in
                {IF defaultCategory.row = NoRow
                 THEN Run(defaultCategory.st, CategorySql.InsertCategoryStmt,
                          <<DefaultCategoryName, clock>>)
                 ELSE NoRun(defaultCategory.st)} :
             \E finalCategoryId \in
                  {IF categoryId # NullId THEN categoryId
                   ELSE IF defaultCategory.row = NoRow THEN result.meta
                   ELSE defaultCategory.row.id} :
               \E setting \in
                    {Run(result.st, SettingSql.UpdateSettingStorageAndCategory,
                         <<"r2", finalCategoryId, OwnerChat>>)} :
                 mem' = Run(setting.st, FileSql.InsertFileStmt,
                            <<UrlOf(key), key, -1, clock, name, Len(body),
                              getContentType(ext), "r2", finalCategoryId>>).st.s
      /\ resp' = UploadOk(UrlOf(key))
      /\ uploaded' = uploaded \cup {[path |-> key, body |-> body]}
      /\ UNCHANGED <<env, db, tg, clock, served, boot>>

InitCat ==
  /\ env \in [bucket : {TRUE}, tg : {TRUE}, database : BOOLEAN]
  /\ db = BootstrappedDb
  /\ bucket = EmptyBucket
  /\ tg = <<>>
  /\ clock = 1
  /\ uploads = 0
  /\ served = 0
  /\ uploaded = {}
  /\ req = UploadReq
  /\ resp = NoResponse
  /\ boot = BootIdle
  /\ mem = NewEmulator

NextCat ==
  \/ \E name \in CategoryNameInputs, failAt \in 0..3 : CreateCategory(name, failAt)
  \/ \E id \in CategoryIdInputs, failAt \in 0..7 : DeleteCategory(id, failAt)
  \/ \E text \in CategoryNameInputs : WebhookText(text)
  \/ \E cbData \in CallbackInputs, k \in 1..MaxCategoryId : WebhookCallback(cbData, k)
  \/ \E name \in FileNames, cat \in 0..MaxCategoryId :
       env.database /\ uploads < MaxCategoryUploads /\ UploadForm(name, 1, "r2", cat, TRUE, 0)
  \/ \E name \in FileNames, cat \in 0..MaxCategoryId :
       uploads < MaxCategoryUploads /\ EmulatorUpload(name, 1, cat)

SpecCat == InitCat /\ [][NextCat]_vars

----------------------------------------------------------------------------
(* Properties of the category handlers *)

\* the rows of a store that carry the default category's name
DefaultRows(s) == {i \in 1..Len(s.categories) : s.categories[i].name = DefaultCategoryName}

\* the id of the default category in a store, null when there is none
DefaultIdIn(s) ==
  IF DefaultRows(s) = {} THEN NullId ELSE s.categories[CHOOSE i \in DefaultRows(s) : TRUE].id

\* the step is a delete-category request
DeleteStep == served' = served + 1 /\ req'.kind = "delete-category"

\* C11: a delete-category request whose id is the id of the category named
\* '默认分类' (as a number or as a string of digits, on the bound store and on
\* the emulator) leaves categories, files and user_settings as they were and
\* is answered 403; the only other answer is 500, when the driver fails the
\* handler's first statement.
C11_DeleteDefaultRejected ==
  [][DeleteStep /\ IdNamed(req'.arg) = DefaultIdIn(StoreOfRequest.s)
       => /\ resp'.status \in {403, 500}
          /\ (req'.failAt # 1 => resp'.status = 403)
          /\ StoreAfter.categories = StoreOfRequest.s.categories
          /\ StoreAfter.files = StoreOfRequest.s.files
          /\ StoreAfter.user_settings = StoreOfRequest.s.user_settings]_vars

\* the default category's id, sent as a string, was refused on a store that
\* holds other categories, a file and a settings row
C11_Witness ==
  /\ req.kind = "delete-category"
  /\ req.arg = JsStr(DefaultIdIn(db))
  /\ resp.status = 403
  /\ env.database
  /\ Len(db.categories) > 1
  /\ Len(db.files) > 0
  /\ Len(db.user_settings) > 0

\* C12: after a delete-category request that answered 200 for category c,
\* every files row and every user_settings row that referenced c references
\* the default category's id, that id is not null, and no category has id c.
C12_DeleteReassignsToDefault ==
  [][DeleteStep /\ resp'.status = 200
       => LET c == IdNamed(req'.arg)
              before == StoreOfRequest.s
              after == StoreAfter
              d == DefaultIdIn(after)
          IN  /\ d # NullId
              /\ Len(after.files) = Len(before.files)
              /\ \A i \in 1..Len(before.files) :
                   before.files[i].category_id = c => after.files[i].category_id = d
              /\ Len(after.user_settings) = Len(before.user_settings)
              /\ \A i \in 1..Len(before.user_settings) :
                   before.user_settings[i].current_category_id = c
                     => after.user_settings[i].current_category_id = d
              /\ \A i \in 1..Len(after.categories) : after.categories[i].id # c]_vars

\* a category that a file and a settings row referenced was deleted
C12_Witness ==
  /\ req.kind = "delete-category"
  /\ resp.status = 200
  /\ req.refs.files > 0
  /\ req.refs.user_settings > 0
  /\ \A i \in 1..Len(db.files) : db.files[i].category_id = DefaultIdIn(db)

\* C13: in every state the category requests, the uploads and the webhook
\* requests reach from a bootstrapped store, exactly one category is named
\* '默认分类' (on the emulator: once a request has used it).
C13_ExactlyOneDefault ==
  /\ env.database => Cardinality(DefaultRows(db)) = 1
  /\ ~env.database /\ served + uploads > 0 => Cardinality(DefaultRows(mem)) = 1

\* a create-category request for the default category's name, padded with
\* blanks, was refused on a store that holds another category
C13_Witness ==
  /\ req.kind = "create-category"
  /\ req.arg = PaddedDefault
  /\ resp.status = 400
  /\ env.database
  /\ Len(db.categories) > 1

----------------------------------------------------------------------------
(* Statements on the emulator of one request, and the same statements on a
   bound store *)

MaxStatements == 3     \* statements per behaviour

Statement(kind, sql, params) == [kind |-> kind, sql |-> sql, params |-> params]

\* a file as the upload handlers insert it, and the values a relocation to
\* another name writes
FileParams ==
  <<UrlOf(<<1, "bin">>), <<1, "bin">>, -1, 1, <<90, "bin">>, 1,
    "application/octet-stream", "r2", 1>>
NewLocator == <<2, "bin">>

\* the calls a request may make: the statements of the handlers with values
\* bound, the two inserts of a category for both names, and statements of
\* the bootstrap that the emulator has no shape for
StatementInputs ==
  {Statement("run", CategorySql.InsertCategoryStmt, <<n, 1>>) :
     n \in {DefaultCategoryName, OtherCategoryName}}
    \cup {Statement("run", OtherSql.InsertOrIgnoreCategory, <<n>>) :
            n \in {DefaultCategoryName, OtherCategoryName}}
    \cup {Statement("run", CategorySql.DeleteCategoryById, <<JsNum(n)>>) : n \in 1..2}
    \cup {Statement("run", FileSql.InsertFileStmt, FileParams),
          Statement("run", FileSql.UpdateFileUrl, <<UrlOf(NewLocator), JsNum(1)>>),
          Statement("run", FileSql.UpdateFileLocator,
                    <<NewLocator, UrlOf(NewLocator), JsNum(1)>>),
          Statement("run", FileSql.DeleteFileById, <<JsNum(1)>>),
          Statement("run", CategorySql.UpdateFilesCategory, <<JsNum(2), JsNum(1)>>),
          Statement("run", SettingSql.InsertSettingStmt, <<OwnerChat, "r2", 1>>),
          Statement("run", SettingSql.UpdateSettingStorageAndCategory,
                    <<"telegram", 2, OwnerChat>>),
          Statement("run", SettingSql.UpdateSettingWaitingAndEditing,
                    <<"new_suffix", 1, OwnerChat>>),
          Statement("run", SettingSql.ClearSettingWaitingAndEditing, <<OwnerChat>>),
          Statement("run", SettingSql.UpdateSettingWaiting, <<"new_category", OwnerChat>>),
          Statement("run", SettingSql.ClearSettingWaiting, <<OwnerChat>>),
          Statement("run", SettingSql.UpdateSettingStorageOnly, <<"telegram", OwnerChat>>),
          Statement("run", SettingSql.UpdateSettingCategoryOnly, <<2, OwnerChat>>),
          Statement("run", OtherSql.CountUncategorizedFiles, <<>>),
          Statement("first", CategorySql.SelectCategoryIdByName, <<DefaultCategoryName>>),
          Statement("first", FileSql.SelectFileById, <<JsNum(1)>>),
          Statement("first", FileSql.SelectOtherFileByLocator, <<<<1, "bin">>, JsNum(1)>>),
          Statement("first", FileSql.SelectOtherFileByUrl, <<UrlOf(<<1, "bin">>), JsNum(1)>>),
          Statement("first", SettingSql.SelectSettingByChat, <<OwnerChat>>),
          Statement("first", OtherSql.CountUncategorizedFiles, <<>>),
          Statement("first", OtherSql.SelectCategories, <<>>),
          Statement("all", OtherSql.SelectCategories, <<>>),
          Statement("all", OtherSql.SelectAllFiles, <<>>),
          Statement("all", OtherSql.PragmaTableInfo, <<>>),
          Statement("all", SettingSql.SelectSettingByChat, <<OwnerChat>>)}

\* what a call answers: run gives meta.last_row_id, first a row or null, all
\* a list
Answer(kind, meta, row, results) ==
  [kind |-> kind, meta |-> meta, row |-> row, results |-> results]

\* One call on the emulator of the request.  The bound store of another
\* deployment gets the same write, for comparison (a statement it refuses,
\* the insert of a name it holds, leaves it as it is).
EmulatorCall(s) ==
  /\ served < MaxStatements
  /\ served' = served + 1
  /\ req' = s
  /\ CASE s.kind = "run" ->
            \E r \in {emRun(mem, s.sql, s.params)} :
              \E real \in {sqlRun(db, s.sql, s.params)} :
                /\ mem' = r.m
                /\ resp' = Answer("run", r.meta, NoRow, <<>>)
                /\ db' = real.d
       [] s.kind = "first" ->
            \E r \in {emFirst(mem, s.sql, s.params)} :
              /\ mem' = r.m
              /\ resp' = Answer("first", 0, r.row, <<>>)
              /\ db' = db
       [] OTHER ->
            \E r \in {emAll(mem, s.sql, s.params)} :
              /\ mem' = r.m
              /\ resp' = Answer("all", 0, NoRow, r.results)
              /\ db' = db
  /\ UNCHANGED <<env, bucket, tg, clock, uploads, uploaded, boot>>

InitEmu ==
  /\ env = [bucket |-> TRUE, tg |-> TRUE, database |-> FALSE]
  /\ db = BootstrappedDb
  /\ bucket = EmptyBucket
  /\ tg = <<>>
  /\ clock = 1
  /\ uploads = 0
  /\ served = 0
  /\ uploaded = {}
  /\ req = Statement("none", <<>>, <<>>)
  /\ resp = Answer("none", 0, NoRow, <<>>)
  /\ boot = BootIdle
  /\ mem = NewEmulator

NextEmu == \E s \in StatementInputs : EmulatorCall(s)

SpecEmu == InitEmu /\ [][NextEmu]_vars

----------------------------------------------------------------------------
(* Properties of the emulator *)

\* the step is a call on the emulator
CallStep == served' = served + 1

\* the shapes a call of that kind is tested against
ShapesFor(kind) ==
  IF kind = "run" THEN RunShapes ELSE IF kind = "first" THEN FirstShapes ELSE AllShapes

\* the normalized statement starts with one of the shapes
Recognized(shapes, sql) ==
  \E i \in 1..Len(shapes) : StartsWith(Normalize(sql), shapes[i])

\* the call inserts a category of that name, by either insert statement
InsertsCategory(s, n) ==
  /\ s.kind = "run"
  /\ s.sql \in {CategorySql.InsertCategoryStmt, OtherSql.InsertOrIgnoreCategory}
  /\ s.params[1] = n

\* C14: the first call on a new emulator, whatever its kind and statement,
\* leaves the emulator initialized with exactly one category named '默认分类'
\* (none when that call is the delete of the seeded category); no later call
\* seeds again; an insert of that name while it is present adds no row and
\* answers with the present id; and SELECT id FROM categories WHERE name = ?
\* for that name, while it is present, answers a row with a non-null id.
C14_SeedsOneDefault ==
  [][CallStep
       => /\ mem'.initialized
          /\ Cardinality(DefaultRows(mem')) <= 1
          /\ (~mem.initialized /\ req'.sql # CategorySql.DeleteCategoryById
                => Cardinality(DefaultRows(mem')) = 1 /\ DefaultIdIn(mem') # NullId)
          /\ (mem.initialized /\ DefaultRows(mem) # {} /\ InsertsCategory(req', DefaultCategoryName)
                => mem'.categories = mem.categories /\ resp'.meta = DefaultIdIn(mem))
          /\ (req'.kind = "first" /\ req'.sql = CategorySql.SelectCategoryIdByName
                /\ req'.params[1] = DefaultCategoryName /\ DefaultRows(mem') # {}
                => resp'.row # NoRow /\ resp'.row.id # NullId)]_vars

\* the default category's name was inserted again on an emulator that holds
\* the seeded category and another one: no row was added
C14_Witness ==
  /\ InsertsCategory(req, DefaultCategoryName)
  /\ served = 2
  /\ Len(mem.categories) = 2
  /\ Cardinality(DefaultRows(mem)) = 1
  /\ resp.meta = DefaultIdIn(mem)

\* C15: a call whose statement starts with none of the shapes of its kind
\* answers last_row_id 0 (run), the empty list (all) or null (first), and
\* leaves the emulator as it was, apart from the seeding by the first call.
C15_UnrecognizedIsNoOp ==
  [][CallStep /\ ~Recognized(ShapesFor(req'.kind), req'.sql)
       => /\ resp' = Answer(req'.kind, 0, NoRow, <<>>)
          /\ mem' = IF mem.initialized THEN mem ELSE ensureInitialized(NewEmulator)]_vars

\* a statement of no shape was asked of an emulator that holds a file and a
\* settings row
C15_Witness ==
  /\ req = Statement("all", OtherSql.PragmaTableInfo, <<>>)
  /\ resp = Answer("all", 0, NoRow, <<>>)
  /\ Len(mem.files) > 0
  /\ Len(mem.user_settings) > 0

\* C16: after UPDATE files SET fileId = ?, url = ? WHERE id = ? on the
\* emulator, for a row it holds, reading the row back gives the new locator
\* and the new URL, as on the bound store.
C16_EmulatorUpdatesLocator ==
  [][CallStep /\ req'.kind = "run" /\ req'.sql = FileSql.UpdateFileLocator
       /\ emFirst(mem, FileSql.SelectFileById, <<req'.params[3]>>).row # NoRow
       => LET e == emFirst(mem', FileSql.SelectFileById, <<req'.params[3]>>).row
              r == sqlFirst(db', FileSql.SelectFileById, <<req'.params[3]>>)
          IN  /\ e # NoRow
              /\ e.fileId = req'.params[1]
              /\ e.url = req'.params[2]
              /\ (r # NoRow => e.fileId = r.fileId /\ e.url = r.url)]_vars

\* the settings row of a chat, read back from the emulator
SettingReadBack(m, chatId) == emFirst(m, SettingSql.SelectSettingByChat, <<chatId>>).row

\* C17: after each of the single-column updates of user_settings that the
\* handlers issue (waiting_for set, waiting_for cleared, storage_type,
\* current_category_id), for a chat whose row the emulator holds, reading the
\* row back gives the value written.
C17_EmulatorUpdatesSetting ==
  [][CallStep /\ req'.kind = "run"
       => /\ (req'.sql = SettingSql.UpdateSettingWaiting
                /\ SettingReadBack(mem, req'.params[2]) # NoRow
                => SettingReadBack(mem', req'.params[2]).waiting_for = req'.params[1])
          /\ (req'.sql = SettingSql.ClearSettingWaiting
                /\ SettingReadBack(mem, req'.params[1]) # NoRow
                => SettingReadBack(mem', req'.params[1]).waiting_for = NullText)
          /\ (req'.sql = SettingSql.UpdateSettingStorageOnly
                /\ SettingReadBack(mem, req'.params[2]) # NoRow
                => SettingReadBack(mem', req'.params[2]).storage_type = req'.params[1])
          /\ (req'.sql = SettingSql.UpdateSettingCategoryOnly
                /\ SettingReadBack(mem, req'.params[2]) # NoRow
                => SettingReadBack(mem', req'.params[2]).current_category_id
                     = req'.params[1])]_vars

----------------------------------------------------------------------------
(* Relocation of a stored file under a new suffix: POST /update-suffix
   (handleUpdateSuffixRequest) and the bot's dialogue (the "edit suffix"
   button, the reply that names the file, the reply with the new suffix),
   on a deployment with a bound store, a bucket and the transport *)

MaxMoveUploads == 2     \* uploads per behaviour (web and bot)
MaxMoveRequests == 4    \* relocation requests and webhook updates per behaviour

\* file names the bot receives
BotFileNames == {<<90, "mp4">>}

\* `${timestamp}_${originalFileName}`: the stem "1_90" is written 1090
BotKey(now, name) == <<1000 * now + name[1], name[2]>>

\* suffixes a user enters: the stem of the web upload of clock 1, the stem of
\* the bot's upload of clock 1, and one no file has
SuffixInputs == {1, 2, BotKey(1, <<90, "mp4">>)[1]}

\* the blob stores and the bound store a handler works on
World(d, b, t) == [d |-> d, b |-> b, t |-> t]

\* getFileName(url): the last part of the path
getFileName(url) == url.path

\* `${suffix}.${fileExt}` with fileExt = originalFileName.split('.').pop()
NewFileName(originalFileName, suffix) == <<suffix, ExtOf(originalFileName)>>

\* storeFile: the put under fileName; when the put fails, or no bucket is
\* bound, the bytes go to the transport instead, and only a failure there
\* throws
storeFile(w, arrayBuffer, fileName, mimeType, putOk, sendOk) ==
  IF env.bucket /\ putOk
  THEN [w |-> [w EXCEPT !.b = BucketPut(w.b, fileName, arrayBuffer, mimeType)],
        threw |-> FALSE]
  ELSE IF env.tg /\ sendOk
       THEN [w |-> [w EXCEPT !.t = TgSend(w.t, arrayBuffer)], threw |-> FALSE]
       ELSE [w |-> w, threw |-> TRUE]

\* deleteFile: bucket.delete(fileId)
deleteFile(w, fileId) ==
  IF env.bucket THEN [w EXCEPT !.b = [k \in DOMAIN w.b \ {fileId} |-> w.b[k]]] ELSE w

\* a relocation that rewrites the locator together with the url
updateUrlWithLocator(w, newFileName, id) ==
  [w EXCEPT !.d = sqlRun(w.d, FileSql.UpdateFileLocator,
                         <<newFileName, UrlOf(newFileName), JsNum(id)>>).d]

\* UPDATE files SET url = ? WHERE id = ?
updateUrl(w, newFileName, id) ==
  [w EXCEPT !.d = sqlRun(w.d, FileSql.UpdateFileUrl, <<UrlOf(newFileName), JsNum(id)>>).d]

\* The branches on the file's storage type, the same in the three places that
\* relocate (lines 4861-4901, 926-958, 1170-1202).  bucketBranch is the test
\* that guards the bucket branch: config.bucket for the endpoint,
\* storage_type === 'r2' && config.bucket for the bot.  Every files row of the
\* model has a fileId, so `file.fileId || originalFileName` is file.fileId.
moveFile(w, file, newFileName, bucketBranch, putOk, sendOk) ==
  IF file.storage_type = "telegram"
  THEN [w |-> updateUrl(w, newFileName, file.id), put |-> FALSE]
  ELSE IF ~bucketBranch
  THEN [w |-> updateUrl(w, newFileName, file.id), put |-> FALSE]
  ELSE IF file.fileId \notin DOMAIN w.b
  THEN [w |-> updateUrl(w, newFileName, file.id), put |-> FALSE]
  ELSE Val({IF stored.threw
            THEN [w |-> updateUrl(stored.w, newFileName, file.id), put |-> FALSE]
            ELSE [w |-> [deleteFile(stored.w, file.fileId) EXCEPT
                           !.d = sqlRun(w.d, FileSql.UpdateFileLocator,
                                        <<newFileName, UrlOf(newFileName), JsNum(file.id)>>).d],
                  put |-> env.bucket /\ putOk] :
              stored \in {storeFile(w, w.b[file.fileId].body, newFileName,
                                    w.b[file.fileId].contentType, putOk, sendOk)}})

\* what a relocation request did: the outcome, the id of the record it was
\* about, the new name it computed, and whether a put under that name succeeded
Moved(w, outcome, target, newFileName, put) ==
  [w |-> w, outcome |-> outcome, target |-> target, newFileName |-> newFileName, put |-> put]

\* handleUpdateSuffixRequest (lines 4812-4914), for a non-empty url and suffix
handleUpdateSuffixRequest(w, url, suffix, putOk, sendOk) ==
  Val({IF fileRecord = NoRow THEN Moved(w, "not-found", NullId, NoName, FALSE)
       ELSE
         Val({IF sqlFirst(w.d, FileSql.SelectOtherFileByLocator,
                          <<newFileName, JsNum(fileRecord.id)>>) # NoRow
                 \/ sqlFirst(w.d, FileSql.SelectOtherFileByUrl,
                             <<UrlOf(newFileName), JsNum(fileRecord.id)>>) # NoRow
              THEN Moved(w, "rejected", fileRecord.id, newFileName, FALSE)
              ELSE Val({Moved(m.w, "moved", fileRecord.id, newFileName, m.put) :
                          m \in {moveFile(w, fileRecord, newFileName, env.bucket,
                                          putOk, sendOk)}}) :
                newFileName \in {NewFileName(getFileName(url), suffix)}}) :
         fileRecord \in
           {IF sqlFirst(w.d, FileSql.SelectFileByUrl, <<url>>) # NoRow
            THEN sqlFirst(w.d, FileSql.SelectFileByUrl, <<url>>)
            ELSE sqlFirst(w.d, FileSql.SelectFileByLocator, <<getFileName(url)>>)}})

\* texts of the owner in the dialogue: the url of a file, or a new suffix
UrlText(url) == [kind |-> "url", url |-> url, suffix |-> 0]
SuffixText(suffix) == [kind |-> "suffix", url |-> NoUrl, suffix |-> suffix]

\* The reply that names the file (lines 1101-1156), for a text that is a url
\* or a word without a dot: the file of that url and chat becomes the one
\* being edited, anything else ends the dialogue.
webhookFileChoice(w, chatId, text) ==
  Val({IF fileToEdit = NoRow
       THEN [w EXCEPT !.d = sqlRun(w.d, SettingSql.ClearSettingWaitingAndEditing,
                                   <<chatId>>).d]
       ELSE [w EXCEPT !.d = sqlRun(w.d, SettingSql.UpdateSettingWaitingAndEditing,
                                   <<"edit_suffix_input_new", fileToEdit.id, chatId>>).d] :
         fileToEdit \in
           {IF text.kind = "url"
            THEN sqlFirst(w.d, FileSql.SelectFileByUrlAndChat, <<text.url, chatId>>)
            ELSE NoRow}})

\* The reply with the new suffix (lines 1157-1213): the file being edited is
\* relocated, with no look at the other records, and the dialogue ends.
webhookNewSuffix(w, userSetting, chatId, newSuffix, putOk, sendOk) ==
  Val({Val({Moved([m.w EXCEPT !.d = sqlRun(m.w.d, SettingSql.ClearSettingWaitingAndEditing,
                                            <<chatId>>).d],
                  m.outcome, m.target, m.newFileName, m.put) :
              m \in {IF file = NoRow THEN Moved(w, "not-found", NullId, NoName, FALSE)
                     ELSE Val({Val({Moved(r.w, "moved", file.id, newFileName, r.put) :
                                      r \in {moveFile(w, file, newFileName,
                                                      file.storage_type = "r2" /\ env.bucket,
                                                      putOk, sendOk)}}) :
                                 newFileName \in
                                   {NewFileName(getFileName(file.url), newSuffix)}})}}) :
         file \in {sqlFirst(w.d, FileSql.SelectFileById,
                            <<JsStr(userSetting.editing_file_id)>>)}})

\* a text message of the chat, by the state of its dialogue (lines 1101-1216)
webhookSuffixText(w0, chatId, text, putOk, sendOk, now) ==
  Val({Val({CASE u.userSetting.waiting_for = "edit_suffix_input_file" ->
                   Moved(webhookFileChoice(w, chatId, text), "none", NullId, NoName, FALSE)
              [] u.userSetting.waiting_for = "edit_suffix_input_new"
                   /\ u.userSetting.editing_file_id # NullId ->
                   webhookNewSuffix(w, u.userSetting, chatId, text.suffix, putOk, sendOk)
              [] OTHER -> Moved(w, "none", NullId, NoName, FALSE) :
              w \in {[w0 EXCEPT !.d = u.st.s]}}) :
         u \in {userSettingOf(D1(w0.d), chatId, now)}})

\* handleMediaUpload (lines 1631-1880) for a file the transport hands over:
\* the bytes go to the bucket or to the transport by the chat's storage type,
\* and the files row carries the chat
handleMediaUpload(w, userSetting, chatId, fileName, body, now) ==
  Val({IF x.storageType = "r2" /\ env.bucket
       THEN [w EXCEPT !.b = BucketPut(w.b, x.key, body, x.mimeType),
                      !.d = sqlRun(x.d, FileSql.InsertFileWithChat,
                                   <<UrlOf(x.key), x.key, -1, now, fileName, Len(body),
                                     x.mimeType, chatId, x.categoryId, x.storageType>>).d]
       ELSE [w EXCEPT !.t = TgSend(w.t, body),
                      !.d = sqlRun(x.d, FileSql.InsertFileWithChat,
                                   <<UrlOf(x.key), TgFileId(Len(w.t) + 1), Len(w.t) + 1, now,
                                     fileName, Len(body), x.mimeType, chatId, x.categoryId,
                                     x.storageType>>).d] :
         x \in {[storageType |-> userSetting.storage_type,
                 key |-> BotKey(now, fileName),
                 mimeType |-> getContentType(ExtOf(fileName)),
                 d |-> WithDefault(w.d),
                 categoryId |-> FinalCategoryId(WithDefault(w.d),
                                                userSetting.current_category_id)]}})

\* a message with a file (lines 1047-1066)
webhookMedia(w0, chatId, fileName, body, now) ==
  Val({handleMediaUpload([w0 EXCEPT !.d = u.st.s], u.userSetting, chatId, fileName, body, now) :
         u \in {userSettingOf(D1(w0.d), chatId, now)}})

\* the last request: what it was and what it did
MoveReq(kind, arg, m) ==
  [kind |-> kind, arg |-> arg, path |-> NoName, range |-> NoRange,
   outcome |-> m.outcome, target |-> m.target, newFileName |-> m.newFileName, put |-> m.put]

MoveStep(kind, arg, m) ==
  /\ served < MaxMoveRequests
  /\ served' = served + 1
  /\ req' = MoveReq(kind, arg, m)
  /\ resp' = Response(200, <<>>, {}, kind)
  /\ db' = m.w.d
  /\ bucket' = m.w.b
  /\ tg' = m.w.t
  /\ UNCHANGED <<env, clock, uploads, uploaded, boot, mem>>

\* POST /update-suffix
UpdateSuffix(url, suffix, putOk, sendOk) ==
  \E m \in {handleUpdateSuffixRequest(World(db, bucket, tg), url, suffix, putOk, sendOk)} :
    MoveStep("update-suffix", <<url, suffix>>, m)

\* POST /webhook with a text of the owner: the url of a file, unless a new
\* suffix is awaited, or a suffix
WebhookSuffixText(text, putOk, sendOk) ==
  /\ \A u \in {sqlFirst(db, SettingSql.SelectSettingByChat, <<OwnerChat>>)} :
       IF text.kind = "url" /\ u # NoRow THEN u.waiting_for # "edit_suffix_input_new"
       ELSE TRUE
  /\ \E m \in {webhookSuffixText(World(db, bucket, tg), OwnerChat, text, putOk, sendOk, clock)} :
       MoveStep("webhook-text", text, m)

\* POST /webhook with a button of the panel: the storage switch or "edit suffix"
WebhookButton(cbData) ==
  \E st \in {webhookCallback(D1(db), OwnerChat, cbData, 0, clock)} :
    MoveStep("webhook-callback", cbData,
             Moved(World(st.s, bucket, tg), "none", NullId, NoName, FALSE))

\* POST /webhook with a file of the owner
WebhookMedia(fileName, len) ==
  /\ uploads < MaxMoveUploads
  /\ \E w \in {webhookMedia(World(db, bucket, tg), OwnerChat, fileName,
                            BodyOf(uploads + 1, len), clock)} :
       /\ uploads' = uploads + 1
       /\ req' = MoveReq("webhook-media", fileName,
                         Moved(w, "none", NullId, NoName, FALSE))
       /\ resp' = Response(200, <<>>, {}, "webhook-media")
       /\ db' = w.d
       /\ bucket' = w.b
       /\ tg' = w.t
       /\ UNCHANGED <<env, clock, served, uploaded, boot, mem>>

\* urls a relocation request names: those of the records, and one of no record
UrlInputs == {db.files[i].url : i \in 1..Len(db.files)} \cup {UrlOf(<<2, "mp4">>)}

\* what the blob stores do with the copy: the put succeeds; the put fails and
\* the transport takes the bytes; both fail
StoreFaults ==
  {[putOk |-> TRUE, sendOk |-> TRUE], [putOk |-> FALSE, sendOk |-> TRUE],
   [putOk |-> FALSE, sendOk |-> FALSE]}

InitMove ==
  /\ env = [bucket |-> TRUE, tg |-> TRUE, database |-> TRUE]
  /\ db = BootstrappedDb
  /\ bucket = EmptyBucket
  /\ tg = <<>>
  /\ clock = 1
  /\ uploads = 0
  /\ served = 0
  /\ uploaded = {}
  /\ req = MoveReq("none", <<>>, Moved(World(db, bucket, tg), "none", NullId, NoName, FALSE))
  /\ resp = NoResponse
  /\ boot = BootIdle
  /\ mem = NewEmulator

NextMove ==
  \/ \E url \in UrlInputs, suffix \in SuffixInputs, f \in StoreFaults :
       UpdateSuffix(url, suffix, f.putOk, f.sendOk)
  \/ \E url \in UrlInputs : WebhookSuffixText(UrlText(url), TRUE, TRUE)
  \/ \E suffix \in SuffixInputs, f \in StoreFaults :
       WebhookSuffixText(SuffixText(suffix), f.putOk, f.sendOk)
  \/ \E cbData \in {"switch_storage", "edit_suffix_input"} : WebhookButton(cbData)
  \/ \E name \in BotFileNames : WebhookMedia(name, 1)
  \/ \E name \in FileNames, storageType \in {"r2", "telegram"} :
       uploads < MaxMoveUploads /\ UploadForm(name, 1, storageType, NullId, TRUE, 0)

SpecMove == InitMove /\ [][NextMove]_vars

----------------------------------------------------------------------------
(* Properties of the relocation *)

\* the step is a relocation request that found its record
MoveOf == served' = served + 1 /\ req'.target # NullId

\* the files row of that id
TargetRow(d, id) == sqlFirst(d, FileSql.SelectFileById, <<JsNum(id)>>)

\* the new name, as url or as locator, belongs to another record than id
Collides(d, id, newFileName) ==
  \E i \in 1..Len(d.files) :
    /\ d.files[i].id # id
    /\ (d.files[i].url = UrlOf(newFileName) \/ d.files[i].fileId = newFileName)

\* C18: a relocation, through /update-suffix or through the bot's reply with
\* the new suffix, whose new url or new locator belongs to another files row
\* is rejected, and it leaves the files rows, the bucket and the transport as
\* they were.
C18_CollidingRelocateRejected ==
  [][MoveOf /\ Collides(db, req'.target, req'.newFileName)
       => /\ req'.outcome = "rejected"
          /\ db'.files = db.files
          /\ bucket' = bucket
          /\ tg' = tg]_vars

\* C19: a relocation of a record stored in the transport changes the url of
\* that files row and nothing else: not its other columns, not another files
\* row, not a category, not the bucket, not the transport.
C19_TransportRelocateChangesUrlOnly ==
  [][MoveOf /\ req'.outcome = "moved"
       /\ TargetRow(db, req'.target).storage_type = "telegram"
       => /\ Len(db'.files) = Len(db.files)
          /\ \A i \in 1..Len(db.files) :
               db'.files[i] = IF db.files[i].id = req'.target
                              THEN [db.files[i] EXCEPT !.url = UrlOf(req'.newFileName)]
                              ELSE db.files[i]
          /\ db'.categories = db.categories
          /\ bucket' = bucket
          /\ tg' = tg]_vars

\* the bot relocated a record stored in the transport, next to another
\* record, under a suffix no file had
C19_Witness ==
  /\ req.kind = "webhook-text"
  /\ req.outcome = "moved"
  /\ Len(db.files) = 2
  /\ TargetRow(db, req.target).storage_type = "telegram"
  /\ TargetRow(db, req.target).url = UrlOf(<<2, "mp4">>)
  /\ Len(tg) > 0

\* C20: a relocation of a record stored in the bucket removes a key from the
\* bucket only when a put under the new name has succeeded, and the new name
\* is then a key of the bucket.
C20_OldKeyDeletedAfterPut ==
  [][MoveOf /\ TargetRow(db, req'.target).storage_type = "r2"
       => \A k \in DOMAIN bucket \ DOMAIN bucket' :
            req'.put /\ req'.newFileName \in DOMAIN bucket']_vars

----------------------------------------------------------------------------
(* Requests in flight on the same records: POST /update-suffix
   (handleUpdateSuffixRequest) and POST /delete (handleDeleteRequest), one
   step per awaited call of the store, the bucket or the transport, so that
   two requests interleave between their awaits *)

MaxRaceUploads == 2     \* form uploads per behaviour
MaxRaceRequests == 2    \* relocation and delete requests per behaviour

\* a request slot nothing runs in
RaceIdle ==
  [kind |-> "none",          \* none | relocate | delete
   pc |-> "idle",            \* the await the request is at
   url |-> NoUrl,            \* the url the request names
   suffix |-> 0,             \* the new suffix of a relocation
   file |-> NoRow,           \* fileRecord / file: the row the request read
   newFileName |-> NoName,   \* `${suffix}.${fileExt}`
   data |-> <<>>,            \* fileData: the bytes read from the bucket
   outcome |-> "none",       \* how the request ended
   log |-> <<>>,             \* history: the calls that changed a store, in order
   wrote |-> {},             \* history: the keys the request put
   faulted |-> FALSE,        \* history: a call of the request failed
   had |-> FALSE]            \* history: the row's locator was a key of the bucket

\* what an awaited call does: it succeeds; it fails; for the put, it fails
\* and the send to the transport fails too
RaceFaults == {"none", "fail", "fail-both"}

\* handleUpdateSuffixRequest from one await to the next.  A failure of
\* bucket.get, of storeFile or of the locator update lands in the catch that
\* updates the url alone; deleteFile swallows its failure.
relocateStep(w, f, fault) ==
  CASE f.pc = "lookup" ->
         Val({[w |-> w,
               f |-> IF fileRecord = NoRow
                     THEN [f EXCEPT !.pc = "done", !.outcome = "not-found"]
                     ELSE [f EXCEPT !.pc = "check", !.file = fileRecord,
                                    !.newFileName = NewFileName(getFileName(f.url), f.suffix),
                                    !.had = fileRecord.fileId \in DOMAIN w.b]] :
                fileRecord \in
                  {IF sqlFirst(w.d, FileSql.SelectFileByUrl, <<f.url>>) # NoRow
                   THEN sqlFirst(w.d, FileSql.SelectFileByUrl, <<f.url>>)
                   ELSE sqlFirst(w.d, FileSql.SelectFileByLocator, <<getFileName(f.url)>>)}})
    [] f.pc = "check" ->
         [w |-> w,
          f |-> IF sqlFirst(w.d, FileSql.SelectOtherFileByLocator,
                            <<f.newFileName, JsNum(f.file.id)>>) # NoRow
                   \/ sqlFirst(w.d, FileSql.SelectOtherFileByUrl,
                               <<UrlOf(f.newFileName), JsNum(f.file.id)>>) # NoRow
                THEN [f EXCEPT !.pc = "done", !.outcome = "rejected"]
                ELSE IF f.file.storage_type # "telegram" /\ env.bucket
                THEN [f EXCEPT !.pc = "get"]
                ELSE [f EXCEPT !.pc = "url"]]
    [] f.pc = "get" ->
         [w |-> w,
          f |-> IF fault # "none" \/ f.file.fileId \notin DOMAIN w.b
                THEN [f EXCEPT !.pc = "url"]
                ELSE [f EXCEPT !.pc = "put", !.data = w.b[f.file.fileId]]]
    [] f.pc = "put" ->
         Val({[w |-> stored.w,
               f |-> IF stored.threw THEN [f EXCEPT !.pc = "url"]
                     ELSE IF fault = "none"
                     THEN [f EXCEPT !.pc = "delete", !.log = Append(@, "put"),
                                    !.wrote = @ \cup {f.newFileName}]
                     ELSE [f EXCEPT !.pc = "delete", !.log = Append(@, "send")]] :
                stored \in {storeFile(w, f.data.body, f.newFileName, f.data.contentType,
                                      fault = "none", fault = "fail")}})
    [] f.pc = "delete" ->
         IF fault # "none" THEN [w |-> w, f |-> [f EXCEPT !.pc = "update"]]
         ELSE [w |-> deleteFile(w, f.file.fileId),
               f |-> [f EXCEPT !.pc = "update", !.log = Append(@, "delete")]]
    [] f.pc = "update" ->
         IF fault # "none" THEN [w |-> w, f |-> [f EXCEPT !.pc = "url"]]
         ELSE [w |-> [w EXCEPT !.d = sqlRun(w.d, FileSql.UpdateFileLocator,
                                            <<f.newFileName, UrlOf(f.newFileName),
                                              JsNum(f.file.id)>>).d],
               f |-> [f EXCEPT !.pc = "done", !.outcome = "moved",
                               !.log = Append(@, "update")]]
    [] f.pc = "url" ->
         [w |-> updateUrl(w, f.newFileName, f.file.id),
          f |-> [f EXCEPT !.pc = "done", !.outcome = "moved", !.log = Append(@, "update-url")]]

\* handleDeleteRequest from one await to the next, for an id that is a url
deleteStep(w, f, fault) ==
  CASE f.pc = "lookup" ->
         Val({[w |-> w,
               f |-> IF file = NoRow THEN [f EXCEPT !.pc = "done", !.outcome = "not-found"]
                     ELSE IF file.storage_type = "r2" /\ env.bucket
                     THEN [f EXCEPT !.pc = "blob", !.file = file,
                                    !.had = file.fileId \in DOMAIN w.b]
                     ELSE [f EXCEPT !.pc = "row", !.file = file]] :
                file \in {sqlFirst(w.d, FileSql.SelectFileByUrl, <<f.url>>)}})
    [] f.pc = "blob" ->
         IF fault # "none" THEN [w |-> w, f |-> [f EXCEPT !.pc = "row"]]
         ELSE [w |-> deleteFile(w, f.file.fileId),
               f |-> [f EXCEPT !.pc = "row", !.log = Append(@, "delete")]]
    [] f.pc = "row" ->
         [w |-> [w EXCEPT !.d = sqlRun(w.d, FileSql.DeleteFileById, <<JsNum(f.file.id)>>).d],
          f |-> [f EXCEPT !.pc = "done", !.outcome = "deleted",
                          !.log = Append(@, "delete-row")]]

\* the request of slot i is received
RaceStart(i, kind, url, suffix) ==
  /\ boot[i].pc = "idle"
  /\ served < MaxRaceRequests
  /\ served' = served + 1
  /\ boot' = [boot EXCEPT ![i] = [RaceIdle EXCEPT !.kind = kind, !.pc = "lookup",
                                                  !.url = url, !.suffix = suffix]]
  /\ UNCHANGED <<env, db, bucket, tg, clock, uploads, uploaded, req, resp, mem>>

\* POST /update-suffix is received
StartRelocate(i, url, suffix) == RaceStart(i, "relocate", url, suffix)

\* POST /delete is received
StartDelete(i, url) == RaceStart(i, "delete", url, 0)

\* the request of slot i goes on to its next await
RaceStep(i, fault, out) ==
  /\ boot' = [boot EXCEPT ![i] = [out.f EXCEPT !.faulted = @ \/ fault # "none"]]
  /\ db' = out.w.d
  /\ bucket' = out.w.b
  /\ tg' = out.w.t
  /\ UNCHANGED <<env, clock, uploads, served, uploaded, req, resp, mem>>

RelocateStep(i, fault) ==
  /\ boot[i].kind = "relocate"
  /\ boot[i].pc \in {"get", "put", "delete", "update"} \/ fault = "none"
  /\ boot[i].pc = "put" \/ fault # "fail-both"
  /\ boot[i].pc \notin {"idle", "done"}
  /\ \E out \in {relocateStep(World(db, bucket, tg), boot[i], fault)} :
       RaceStep(i, fault, out)

RemoveStep(i, fault) ==
  /\ boot[i].kind = "delete"
  /\ boot[i].pc = "blob" \/ fault = "none"
  /\ fault # "fail-both"
  /\ boot[i].pc \notin {"idle", "done"}
  /\ \E out \in {deleteStep(World(db, bucket, tg), boot[i], fault)} :
       RaceStep(i, fault, out)

InitRace ==
  /\ env = [bucket |-> TRUE, tg |-> TRUE, database |-> TRUE]
  /\ db = BootstrappedDb
  /\ bucket = EmptyBucket
  /\ tg = <<>>
  /\ clock = 1
  /\ uploads = 0
  /\ served = 0
  /\ uploaded = {}
  /\ req = UploadReq
  /\ resp = NoResponse
  /\ boot = <<RaceIdle, RaceIdle>>
  /\ mem = NewEmulator

\* Uploads arrive in a millisecond whose name no record has, so that two
\* records with one url are never the work of the clock.
NextRace ==
  \/ \E name \in FileNames :
       /\ uploads < MaxRaceUploads
       /\ \A k \in 1..Len(db.files) :
            db.files[k].url # UrlOf(KeyOf(clock, ToLowerCase(ExtOf(name))))
       /\ UploadForm(name, 1, "r2", NullId, TRUE, 0)
  \/ \E i \in 1..2, url \in UrlInputs, suffix \in SuffixInputs : StartRelocate(i, url, suffix)
  \/ \E i \in 1..2, url \in UrlInputs : StartDelete(i, url)
  \/ \E i \in 1..2, fault \in RaceFaults : RelocateStep(i, fault)
  \/ \E i \in 1..2, fault \in RaceFaults : RemoveStep(i, fault)
  \/ Tick

SpecRace == InitRace /\ [][NextRace]_vars

----------------------------------------------------------------------------
(* Properties of requests in flight *)

\* the place of the call c in a log of calls, 0 when the call was not made
PosIn(log, c) ==
  IF \E k \in 1..Len(log) : log[k] = c
  THEN CHOOSE k \in 1..Len(log) : log[k] = c
  ELSE 0

\* the row with this id, NoRow when there is none
RowOfId(d, id) == sqlFirst(d, FileSql.SelectFileById, <<JsNum(id)>>)

\* slot i holds a finished request of this kind that read a row
Finished(i, kind) ==
  boot[i].kind = kind /\ boot[i].pc = "done" /\ boot[i].file # NoRow

(* C21: in a relocation of a bucket-stored file the put under the new key
   comes first, then the update of the row's locator and url, and only then
   the delete of the old key *)
C21_PutUpdateThenDelete ==
  \A i \in 1..2 :
    (boot[i].kind = "relocate" /\ PosIn(boot[i].log, "delete") > 0)
      => /\ PosIn(boot[i].log, "put") > 0
         /\ PosIn(boot[i].log, "put") < PosIn(boot[i].log, "update")
         /\ PosIn(boot[i].log, "update") < PosIn(boot[i].log, "delete")

(* C22: after a relocation of a bucket-stored file to another name that ran
   alone and met a failed call, whichever call it was, the row's locator is a
   key of the bucket when it was one before the relocation *)
C22_LocatorNamesBlobAfterRelocate ==
  \A i \in 1..2 :
    (Finished(i, "relocate") /\ served = 1 /\ boot[i].had /\ boot[i].faulted
     /\ boot[i].newFileName # boot[i].file.fileId
     /\ RowOfId(db, boot[i].file.id) # NoRow)
      => RowOfId(db, boot[i].file.id).fileId \in DOMAIN bucket

(* C24: whatever way uploads and relocations through /update-suffix
   interleave, no two files rows have the same url *)
C24_NoTwoRowsWithOneUrl ==
  \A i, j \in 1..Len(db.files) : i # j => db.files[i].url # db.files[j].url

(* C25: once a relocation and a delete, or two relocations, of the same
   record have both finished without a failed call, every key the requests
   put and left in the bucket is the locator of some row *)
C25_NoBlobLeftUnreferenced ==
  (/\ \A i \in 1..2 : boot[i].pc = "done" /\ boot[i].file # NoRow /\ ~boot[i].faulted
   /\ boot[1].file.id = boot[2].file.id
   /\ "relocate" \in {boot[1].kind, boot[2].kind})
    => \A key \in (boot[1].wrote \cup boot[2].wrote) \cap DOMAIN bucket :
         \E k \in 1..Len(db.files) : db.files[k].fileId = key

----------------------------------------------------------------------------
(* Relocation followed by a file request *)

\* what a file request for this url yields in these stores: handleFileRequest
\* without a Range header and without a failing call
Fetched(d, b, t, url) == handleFileRequest(d, b, t, env, getFileName(url), NoRange, "none")

(* C23: a relocation through /update-suffix that answers success, for every
   record whose url and locator no other record has and for every suffix the
   collision check lets through, is followed by a file request for the new
   url that yields the bytes a file request for the record's old url yielded
   before it, for records in the transport and in the bucket *)
C23_RelocatePreservesBytes ==
  [][MoveOf /\ req'.kind = "update-suffix" /\ req'.outcome = "moved"
       /\ ~Collides(db, req'.target, getFileName(TargetRow(db, req'.target).url))
       /\ Fetched(db, bucket, tg, TargetRow(db, req'.target).url).status = 200
       => /\ Fetched(db', bucket', tg', UrlOf(req'.newFileName)).status = 200
          /\ Fetched(db', bucket', tg', UrlOf(req'.newFileName)).body
               = Fetched(db, bucket, tg, TargetRow(db, req'.target).url).body]_vars

----------------------------------------------------------------------------
(* The dialogue of the bot with the owner: buttons of the panel and the
   replies they ask for (handleTelegramWebhook, handleCallbackQuery) *)

MaxChatUploads == 1     \* files the owner sends per behaviour
MaxChatRequests == 5    \* buttons and texts per behaviour

\* a text that names a category
NameText(name) == [kind |-> "name", url |-> NoUrl, suffix |-> 0, name |-> name]

\* The reply to 'delete_file_input' (lines 975-1043), for a text that is a
\* url: waiting_for is cleared first; the file of that url and chat loses its
\* object in the bucket, when it has one, and its row.  A message deleted from
\* the storage chat changes nothing a file id yields.
webhookDeleteFile(w, chatId, text, deleteOk) ==
  Val({Val({IF fileToDelete = NoRow THEN Moved(w1, "not-found", NullId, NoName, FALSE)
            ELSE Moved([(IF fileToDelete.storage_type = "r2" /\ env.bucket
                            /\ fileToDelete.fileId # NoName /\ deleteOk
                         THEN deleteFile(w1, fileToDelete.fileId) ELSE w1)
                          EXCEPT !.d = sqlRun(w1.d, FileSql.DeleteFileById,
                                              <<JsNum(fileToDelete.id)>>).d],
                       "deleted", fileToDelete.id, NoName, FALSE) :
              fileToDelete \in {sqlFirst(w1.d, FileSql.SelectFileToDelete,
                                         <<text.url, chatId>>)}}) :
         w1 \in {[w EXCEPT !.d = sqlRun(w.d, SettingSql.ClearSettingWaiting, <<chatId>>).d]}})

\* a text message of the chat, by what the chat waits for (lines 884-1216)
webhookMessage(w0, chatId, text, putOk, sendOk, now) ==
  Val({CASE u.userSetting.waiting_for = "new_category" ->
              Moved([w0 EXCEPT !.d = webhookNewCategory(u.st, chatId, text.name, now).s],
                    "category", NullId, NoName, FALSE)
         [] u.userSetting.waiting_for = "delete_file_input" ->
              webhookDeleteFile([w0 EXCEPT !.d = u.st.s], chatId, text, putOk)
         [] OTHER -> webhookSuffixText(w0, chatId, text, putOk, sendOk, now) :
         u \in {userSettingOf(D1(w0.d), chatId, now)}})

\* the user_settings row of the owner, NoRow before the first update
OwnerSetting(d) == sqlFirst(d, SettingSql.SelectSettingByChat, <<OwnerChat>>)

\* what the chat waits for
WaitingFor(d) == IF OwnerSetting(d) = NoRow THEN NullText ELSE OwnerSetting(d).waiting_for

\* the texts the owner answers with: a category name when one is asked for,
\* the url of a file or of none when a file is asked for, a suffix when the
\* new suffix is asked for, and a name when nothing is
TextsAwaited(d) ==
  CASE WaitingFor(d) = "new_category" ->
         {NameText(n) : n \in {DefaultCategoryName, OtherCategoryName}}
    [] WaitingFor(d) \in {"delete_file_input", "edit_suffix_input_file"} ->
         {UrlText(url) : url \in {d.files[i].url : i \in 1..Len(d.files)}
                                   \cup {UrlOf(<<2, "mp4">>)}}
    [] WaitingFor(d) = "edit_suffix_input_new" -> {SuffixText(2)}
    [] OTHER -> {NameText(OtherCategoryName)}

ChatStep(kind, arg, m) ==
  /\ served < MaxChatRequests
  /\ served' = served + 1
  /\ req' = MoveReq(kind, arg, m)
  /\ resp' = Response(200, <<>>, {}, kind)
  /\ db' = m.w.d
  /\ bucket' = m.w.b
  /\ tg' = m.w.t
  /\ UNCHANGED <<env, clock, uploads, uploaded, boot, mem>>

\* POST /webhook with a text of the owner
ChatText(text, putOk, sendOk) ==
  \E m \in {webhookMessage(World(db, bucket, tg), OwnerChat, text, putOk, sendOk, clock)} :
    ChatStep("webhook-text", text, m)

\* POST /webhook with a button of the panel
ChatButton(cbData) ==
  \E st \in {webhookCallback(D1(db), OwnerChat, cbData, 0, clock)} :
    ChatStep("webhook-callback", cbData,
             Moved(World(st.s, bucket, tg), "none", NullId, NoName, FALSE))

\* buttons that ask for a reply
ChatButtons == {"create_category", "edit_suffix_input", "delete_file_input"}

InitChat ==
  /\ env = [bucket |-> TRUE, tg |-> TRUE, database |-> TRUE]
  /\ db = BootstrappedDb
  /\ bucket = EmptyBucket
  /\ tg = <<>>
  /\ clock = 1
  /\ uploads = 0
  /\ served = 0
  /\ uploaded = {}
  /\ req = UploadReq
  /\ resp = NoResponse
  /\ boot = BootIdle
  /\ mem = NewEmulator

NextChat ==
  \/ \E text \in TextsAwaited(db), f \in StoreFaults : ChatText(text, f.putOk, f.sendOk)
  \/ \E cbData \in ChatButtons : ChatButton(cbData)
  \/ \E name \in BotFileNames : uploads < MaxChatUploads /\ WebhookMedia(name, 1)

SpecChat == InitChat /\ [][NextChat]_vars

----------------------------------------------------------------------------
(* Properties of the dialogue *)

\* the step is a text of the owner
TextOf == served' = served + 1 /\ req'.kind = "webhook-text"

\* the settings row of the owner waits for nothing and edits no file
Idle(d) ==
  /\ OwnerSetting(d) # NoRow
  /\ OwnerSetting(d).waiting_for = NullText
  /\ OwnerSetting(d).editing_file_id = NullId

(* C26: after a text that completes an interaction (a category created or
   refused, a suffix change applied or failed, a file deleted or not found),
   whatever buttons and texts came before, the owner's settings row has
   waiting_for null and editing_file_id null *)
C26_IdleAfterInteraction ==
  [][TextOf /\ WaitingFor(db) \in {"new_category", "edit_suffix_input_new", "delete_file_input"}
       => Idle(db')]_vars

----------------------------------------------------------------------------
(* Properties of the user_settings rows *)

\* the user_settings rows a request finds: those of the bound store, or none
\* in the emulator made for the request
SettingsBefore == IF env.database THEN db.user_settings ELSE <<>>

\* the user_settings rows the request leaves
SettingsAfter == StoreAfter.user_settings

\* the step is a webhook update of the owner
WebhookOf == served' = served + 1 /\ req'.kind \in {"webhook-text", "webhook-callback"}

(* C27: a webhook update of an allowed owner that has no user_settings row
   creates one; no request removes a user_settings row; and no store holds
   two rows with one chat_id *)
C27_OneSettingsRowPerOwner ==
  [][/\ WebhookOf /\ (\A i \in 1..Len(SettingsBefore) : SettingsBefore[i].chat_id # OwnerChat)
          => \E j \in 1..Len(SettingsAfter) : SettingsAfter[j].chat_id = OwnerChat
     /\ \A i \in 1..Len(SettingsBefore) :
          \E j \in 1..Len(SettingsAfter) :
            /\ SettingsAfter[j].id = SettingsBefore[i].id
            /\ SettingsAfter[j].chat_id = SettingsBefore[i].chat_id
     /\ \A i, j \in 1..Len(SettingsAfter) :
          SettingsAfter[i].chat_id = SettingsAfter[j].chat_id => i = j]_vars

\* a text of the owner came after the webhook update that had created the
\* owner's row in the bound store and after a button that chose another
\* category, and the store holds that one row
C27_Witness ==
  /\ env.database
  /\ req.kind = "webhook-text"
  /\ Len(db.user_settings) = 1
  /\ db.user_settings[1].chat_id = OwnerChat
  /\ db.user_settings[1].current_category_id = 2

----------------------------------------------------------------------------
(* The retry loops of a request: initDatabase (lines 18-52) and setWebhook
   (lines 356-401), with the calls they retry reduced to their outcomes *)

MaxRetryRequests == 2   \* requests through fetch per behaviour

\* `const maxRetries = 3` of setWebhook
setWebhookMaxRetries == 3

\* a loop test of setWebhook that lets a fourth request follow the third
HookContinuesOffByOne(retryCount) == retryCount <= setWebhookMaxRetries

\* `while (retryCount < maxRetries)`
HookContinues(retryCount) == retryCount < setWebhookMaxRetries

\* a request nothing has been done for
RetryIdle ==
  [pc |-> "idle",          \* where the request is in fetch
   attempt |-> 0,          \* the loop variable of initDatabase
   outcomes |-> <<>>,      \* history: how the attempts of initDatabase ended
   init |-> "none",        \* initDatabase: none | true | throw
   retryCount |-> 0,       \* the loop variable of setWebhook
   replies |-> <<>>,       \* history: what the requests of setWebhook met
   webhookSet |-> "none",  \* setWebhook: none | true | false
   delay |-> 0,            \* the timer the request waits for, in ms
   handlerRan |-> FALSE]   \* a route handler ran for the request

\* how an attempt of initDatabase ends: it succeeds, verification answers
\* false, or a call throws
AttemptOutcomes == {"ok", "invalid", "error"}

\* what a request of setWebhook meets
HookReplies == {"ok", "http-error", "rate-limit", "not-ok", "throw"}

\* retry_after of a rate-limit reply, in seconds
RetryAfter == 1

\* fetch takes a request for a path that needs the store
RetryFetch ==
  /\ boot.pc \in {"idle", "done"}
  /\ served < MaxRetryRequests
  /\ served' = served + 1
  /\ boot' = [RetryIdle EXCEPT !.pc = "attempt", !.attempt = 1]
  /\ UNCHANGED <<env, db, bucket, tg, clock, uploads, uploaded, req, resp, mem>>

\* one attempt of initDatabase
InitAttempt(outcome) ==
  /\ boot.pc = "attempt"
  /\ boot' = IF outcome = "ok"
             THEN [boot EXCEPT !.pc = "hook", !.init = "true",
                               !.outcomes = Append(@, outcome)]
             ELSE IF MoreAttempts(boot.attempt)
             THEN [boot EXCEPT !.pc = "backoff", !.delay = Delay(boot.attempt),
                               !.outcomes = Append(@, outcome)]
             ELSE [boot EXCEPT !.pc = "thrown", !.init = "throw",
                               !.outcomes = Append(@, outcome)]
  /\ UNCHANGED <<env, db, bucket, tg, clock, uploads, served, uploaded, req, resp, mem>>

\* the timer of initDatabase fires: the next attempt
InitBackoff ==
  /\ boot.pc = "backoff"
  /\ boot' = [boot EXCEPT !.pc = "attempt", !.attempt = @ + 1, !.delay = 0]
  /\ UNCHANGED <<env, db, bucket, tg, clock, uploads, served, uploaded, req, resp, mem>>

\* fetch catches the error of initDatabase and answers 500
InitThrown ==
  /\ boot.pc = "thrown"
  /\ boot' = [boot EXCEPT !.pc = "done"]
  /\ resp' = Response(500, <<>>, {}, "none")
  /\ UNCHANGED <<env, db, bucket, tg, clock, uploads, served, uploaded, req, mem>>

\* one request of setWebhook and what the loop does with the reply
HookRequest(reply) ==
  /\ boot.pc = "hook"
  /\ HookContinues(boot.retryCount)
  /\ boot' =
       CASE reply = "ok" ->
              [boot EXCEPT !.pc = "route", !.webhookSet = "true",
                           !.replies = Append(@, reply)]
         [] reply = "not-ok" ->
              [boot EXCEPT !.pc = "route", !.webhookSet = "false",
                           !.replies = Append(@, reply)]
         [] reply = "http-error" ->
              [boot EXCEPT !.retryCount = @ + 1, !.replies = Append(@, reply)]
         [] reply = "rate-limit" ->
              [boot EXCEPT !.pc = "hook-wait", !.delay = RetryAfter * 1000,
                           !.retryCount = @ + 1, !.replies = Append(@, reply)]
         [] reply = "throw" ->
              IF boot.retryCount + 1 < setWebhookMaxRetries
              THEN [boot EXCEPT !.pc = "hook-wait",
                                !.delay = 1000 * Pow2(boot.retryCount + 1),
                                !.retryCount = @ + 1, !.replies = Append(@, reply)]
              ELSE [boot EXCEPT !.retryCount = @ + 1, !.replies = Append(@, reply)]
  /\ UNCHANGED <<env, db, bucket, tg, clock, uploads, served, uploaded, req, resp, mem>>

\* the timer of setWebhook fires: back to the loop test
HookWait ==
  /\ boot.pc = "hook-wait"
  /\ boot' = [boot EXCEPT !.pc = "hook", !.delay = 0]
  /\ UNCHANGED <<env, db, bucket, tg, clock, uploads, served, uploaded, req, resp, mem>>

\* the loop test fails: setWebhook returns false
HookGiveUp ==
  /\ boot.pc = "hook"
  /\ ~HookContinues(boot.retryCount)
  /\ boot' = [boot EXCEPT !.pc = "route", !.webhookSet = "false"]
  /\ UNCHANGED <<env, db, bucket, tg, clock, uploads, served, uploaded, req, resp, mem>>

\* fetch logs what setWebhook returned and goes on to the route
RetryRoute ==
  /\ boot.pc = "route"
  /\ boot' = [boot EXCEPT !.pc = "done", !.handlerRan = TRUE]
  /\ resp' = Response(200, <<>>, {}, "none")
  /\ UNCHANGED <<env, db, bucket, tg, clock, uploads, served, uploaded, req, mem>>

InitRetry ==
  /\ env = [bucket |-> TRUE, tg |-> TRUE, database |-> TRUE]
  /\ db = BootstrappedDb
  /\ bucket = EmptyBucket
  /\ tg = <<>>
  /\ clock = 1
  /\ uploads = 0
  /\ served = 0
  /\ uploaded = {}
  /\ req = UploadReq
  /\ resp = NoResponse
  /\ boot = RetryIdle
  /\ mem = NewEmulator

NextRetry ==
  \/ RetryFetch
  \/ \E outcome \in AttemptOutcomes : InitAttempt(outcome)
  \/ InitBackoff
  \/ InitThrown
  \/ \E reply \in HookReplies : HookRequest(reply)
  \/ HookWait
  \/ HookGiveUp
  \/ RetryRoute

SpecRetry == InitRetry /\ [][NextRetry]_vars

\* every await of a request in flight resolves: a call answers or throws, a
\* timer fires
SpecRetryLive == SpecRetry /\ WF_vars(NextRetry)

----------------------------------------------------------------------------
(* Properties of the retry loops *)

\* the request is in fetch and not yet answered
InFlight == boot.pc \notin {"idle", "done"}

\* every request setWebhook made met a reply the loop retries
AllRetried ==
  \A k \in 1..Len(boot.replies) : boot.replies[k] \in {"http-error", "rate-limit", "throw"}

(* C28: setWebhook makes at most 3 requests whatever replies it meets and
   initDatabase at most 3 attempts; after the third failure setWebhook returns
   false and initDatabase throws, to the caller, with no further round; and
   every request in flight is answered *)
C28_RetryLoopsTerminate ==
  /\ [](Len(boot.replies) <= setWebhookMaxRetries /\ Len(boot.outcomes) <= maxRetries)
  /\ []((Len(boot.replies) = setWebhookMaxRetries /\ AllRetried
         /\ boot.pc \in {"route", "done"})
          => boot.webhookSet = "false")
  /\ []((Len(boot.outcomes) = maxRetries /\ boot.init # "true"
         /\ boot.pc \in {"thrown", "done"})
          => boot.init = "throw" /\ ~boot.handlerRan /\ boot.replies = <<>>)
  /\ (InFlight ~> boot.pc = "done")

\* a request met three replies that setWebhook retries, one of each kind, after
\* two failed attempts of initDatabase, and was answered by its route
C28_Witness ==
  /\ boot.pc = "done"
  /\ boot.outcomes = <<"error", "invalid", "ok">>
  /\ boot.replies = <<"http-error", "rate-limit", "throw">>
  /\ boot.webhookSet = "false"
  /\ boot.handlerRan

----------------------------------------------------------------------------
(* Uploads to the chat transport, send by send: the form upload
   (handleUploadRequest, lines 2228-2255) and the bot's upload
   (handleMediaUpload, lines 1741-1814) *)

MaxSendUploads == 2     \* uploads per behaviour

\* mime types of the files the owner sends to the bot
MimeInputs == {"image/png", "image/svg+xml", "video/mp4", "audio/mpeg", "application/pdf"}

\* mimeType.split('/')[0] and [1] on those types
MainType(mimeType) ==
  CASE mimeType \in {"image/png", "image/svg+xml"} -> "image"
    [] mimeType = "video/mp4" -> "video"
    [] mimeType = "audio/mpeg" -> "audio"
    [] OTHER -> "application"
SubType(mimeType) ==
  CASE mimeType = "image/png" -> "png"
    [] mimeType = "image/svg+xml" -> "svg+xml"
    [] mimeType = "video/mp4" -> "mp4"
    [] mimeType = "audio/mpeg" -> "mpeg"
    [] OTHER -> "pdf"

\* the method of the first send of handleMediaUpload (lines 1741-1757)
mediaMethod(mimeType) ==
  IF MainType(mimeType) = "image" /\ SubType(mimeType) \notin {"svg+xml", "x-icon"}
  THEN "sendPhoto"
  ELSE IF MainType(mimeType) = "video" THEN "sendVideo"
  ELSE IF MainType(mimeType) = "audio" THEN "sendAudio"
  ELSE "sendDocument"

\* The sends of handleMediaUpload when the transport refuses the first
\* `refusals` of them: a refused send by another method than sendDocument is
\* followed by one sendDocument (lines 1771-1796).
mediaSends(method, refusals) ==
  IF refusals = 0 THEN <<method>>
  ELSE IF method # "sendDocument" THEN <<method, "sendDocument">>
  ELSE <<method>>

\* The sends of the form upload: the method is sendDocument, and a refused
\* send is followed by one more sendDocument (lines 2217, 2231-2252).
formSends(refusals) ==
  IF refusals = 0 THEN <<"sendDocument">> ELSE <<"sendDocument", "sendDocument">>

\* the last of the sends was accepted
Accepted(sends, refusals) == refusals < Len(sends)

\* what an upload did: the stores after it, the sends it made, and whether it
\* stored the file
Sent(w, sends, ok) == [w |-> w, sends |-> sends, ok |-> ok]

\* handleMediaUpload for a file of this mime type: to the bucket when the
\* chat's storage type is r2 and a bucket is bound, else to the transport
handleMediaUploadSends(w, userSetting, chatId, fileName, mimeType, body, now, refusals) ==
  Val({IF x.storageType = "r2" /\ env.bucket
       THEN Sent([w EXCEPT !.b = BucketPut(w.b, x.key, body, mimeType),
                           !.d = sqlRun(x.d, FileSql.InsertFileWithChat,
                                        <<UrlOf(x.key), x.key, -1, now, fileName, Len(body),
                                          mimeType, chatId, x.categoryId, x.storageType>>).d],
                 <<>>, TRUE)
       ELSE IF Accepted(x.sends, refusals)
       THEN Sent([w EXCEPT !.t = TgSend(w.t, body),
                           !.d = sqlRun(x.d, FileSql.InsertFileWithChat,
                                        <<UrlOf(x.key), TgFileId(Len(w.t) + 1), Len(w.t) + 1,
                                          now, fileName, Len(body), mimeType, chatId,
                                          x.categoryId, x.storageType>>).d],
                 x.sends, TRUE)
       ELSE Sent([w EXCEPT !.d = x.d], x.sends, FALSE) :
         x \in {[storageType |-> userSetting.storage_type,
                 key |-> BotKey(now, fileName),
                 sends |-> mediaSends(mediaMethod(mimeType), refusals),
                 d |-> WithDefault(w.d),
                 categoryId |-> FinalCategoryId(WithDefault(w.d),
                                                userSetting.current_category_id)]}})

\* a message with a file of this mime type
webhookMediaSends(w0, chatId, fileName, mimeType, body, now, refusals) ==
  Val({handleMediaUploadSends([w0 EXCEPT !.d = u.st.s], u.userSetting, chatId, fileName,
                              mimeType, body, now, refusals) :
         u \in {userSettingOf(D1(w0.d), chatId, now)}})

\* handleUploadRequest (POST) with storage_type=telegram
formUploadSends(w, name, body, now, refusals) ==
  Val({IF env.tg /\ Accepted(x.sends, refusals)
       THEN Sent([w EXCEPT !.t = TgSend(w.t, body),
                           !.d = InsertFile(x.d,
                                   [url |-> UrlOf(x.key), fileId |-> TgFileId(Len(w.t) + 1),
                                    message_id |-> Len(w.t) + 1, file_name |-> name,
                                    file_size |-> Len(body),
                                    mime_type |-> getContentType(ToLowerCase(ExtOf(name))),
                                    storage_type |-> "telegram",
                                    category_id |-> x.categoryId])],
                 x.sends, TRUE)
       ELSE Sent([w EXCEPT !.d = x.d], x.sends, FALSE) :
         x \in {[key |-> KeyOf(now, ToLowerCase(ExtOf(name))),
                 sends |-> formSends(refusals),
                 categoryId |-> FinalCategoryId(WithDefault(w.d), NullId),
                 d |-> UpdateSettingStorage(WithDefault(w.d), "telegram",
                                            FinalCategoryId(WithDefault(w.d), NullId),
                                            OwnerChat)]}})

SendStep(kind, refusals, out) ==
  /\ uploads < MaxSendUploads
  /\ uploads' = uploads + 1
  /\ req' = [kind |-> kind, path |-> NoName, range |-> NoRange,
             sends |-> out.sends, refusals |-> refusals, ok |-> out.ok]
  /\ resp' = Response(IF out.ok \/ kind = "webhook-media" THEN 200 ELSE 500, <<>>, {}, kind)
  /\ db' = out.w.d
  /\ bucket' = out.w.b
  /\ tg' = out.w.t
  /\ UNCHANGED <<env, clock, served, uploaded, boot, mem>>

\* POST /upload with storage_type=telegram
FormSend(name, refusals) ==
  \E out \in {formUploadSends(World(db, bucket, tg), name, BodyOf(uploads + 1, 1), clock,
                              refusals)} :
    SendStep("upload-form", refusals, out)

\* POST /webhook with a file of the owner
MediaSend(fileName, mimeType, refusals) ==
  \E out \in {webhookMediaSends(World(db, bucket, tg), OwnerChat, fileName, mimeType,
                                BodyOf(uploads + 1, 1), clock, refusals)} :
    SendStep("webhook-media", refusals, out)

InitSend ==
  /\ env \in [bucket : BOOLEAN, tg : {TRUE}, database : {TRUE}]
  /\ db = BootstrappedDb
  /\ bucket = EmptyBucket
  /\ tg = <<>>
  /\ clock = 1
  /\ uploads = 0
  /\ served = 0
  /\ uploaded = {}
  /\ req = UploadReq
  /\ resp = NoResponse
  /\ boot = BootIdle
  /\ mem = NewEmulator

NextSend ==
  \/ \E name \in FileNames, refusals \in 0..2 : FormSend(name, refusals)
  \/ \E name \in BotFileNames, mimeType \in MimeInputs, refusals \in 0..2 :
       MediaSend(name, mimeType, refusals)
  \/ ChatButton("switch_storage")
  \/ Tick

SpecSend == InitSend /\ [][NextSend]_vars

----------------------------------------------------------------------------
(* Properties of the sends *)

\* the step is an upload that went to the transport
SendOf == uploads' = uploads + 1 /\ req'.sends # <<>>

TypedMethods == {"sendPhoto", "sendVideo", "sendAudio"}

(* C29: an upload to the transport whose first send uses sendPhoto,
   sendVideo or sendAudio and is refused makes exactly one more send, with
   sendDocument; an upload whose first send uses sendDocument makes no other
   send; and an upload whose last send is refused inserts no files row *)
C29_OneRetryWithDocument ==
  [][SendOf
       => /\ req'.sends[1] \in TypedMethods /\ req'.refusals > 0
               => Len(req'.sends) = 2 /\ req'.sends[2] = "sendDocument"
          /\ req'.sends[1] = "sendDocument" => Len(req'.sends) = 1
          /\ ~req'.ok => db'.files = db.files /\ tg' = tg]_vars

----------------------------------------------------------------------------
(* The collision lookups of a relocation, asked of the emulator *)

\* the call is one of the two collision lookups of handleUpdateSuffixRequest
CollisionLookup(s) ==
  /\ s.kind = "first"
  /\ s.sql \in {FileSql.SelectOtherFileByLocator, FileSql.SelectOtherFileByUrl}

\* the value a record holds in the column the lookup compares
LookedUp(s, f) == IF s.sql = FileSql.SelectOtherFileByUrl THEN f.url ELSE f.fileId

\* no record of the list other than the one being renamed holds the value
NoOtherRecord(files, s) ==
  \A i \in 1..Len(files) :
    LookedUp(s, files[i]) = s.params[1] => files[i].id = Number(s.params[2])

\* the list holds the record being renamed, with the value looked up
HoldsOwnRecord(files, s) ==
  \E i \in 1..Len(files) :
    /\ files[i].id = Number(s.params[2])
    /\ LookedUp(s, files[i]) = s.params[1]

\* C30: a collision lookup for a value that only the record being renamed
\* holds finds no row, on the emulator as on the bound store.
C30_CollisionCheckExcludesOwnRecord ==
  [][CallStep /\ CollisionLookup(req')
       => /\ (NoOtherRecord(mem'.files, req') => resp'.row = NoRow)
          /\ (NoOtherRecord(db'.files, req')
                => sqlFirst(db', req'.sql, req'.params) = NoRow)]_vars

----------------------------------------------------------------------------
(* The waits of the bootstrap *)

\* C31: the wait that follows failed attempt 1 is 1000 ms and the wait that
\* follows failed attempt 2 is 2000 ms; no wait exceeds 5000 ms; a failure of
\* the third attempt starts no wait: the bootstrap throws with the timer
\* untouched.
C31_BackoffWaits ==
  /\ [](boot.delay <= 5000)
  /\ [](boot.pc = "backoff"
         => /\ boot.attempt \in {1, 2}
            /\ boot.delay = (IF boot.attempt = 1 THEN 1000 ELSE 2000))
  /\ [][boot.attempt = 3 /\ boot.pc \notin {"failed", "done"} /\ boot'.pc \notin {"route", "done"}
          => /\ boot'.pc # "backoff"
             /\ boot'.delay = boot.delay]_vars

\* the bootstrap threw after its third attempt, 2000 ms being its last wait
C31_Witness ==
  /\ boot.result = "throw"
  /\ boot.attempt = 3
  /\ boot.probes = 3
  /\ boot.delay = 2000

----------------------------------------------------------------------------
(* The id counters of the emulator *)

EmulatorTables == {"categories", "files", "user_settings"}

\* the ids of the rows a table of the emulator holds
IdsIn(m, t) == {m[t][i].id : i \in 1..Len(m[t])}

\* C32: in each table of the emulator the rows stand in insertion order with
\* strictly increasing ids, every id in use is below the table's counter, no
\* call lowers a counter, and a row that a call adds gets an id that is not
\* below the counter before the call: an id once handed out is never handed
\* out again, whether or not its row has been deleted.
C32_IdCountersOnlyIncrease ==
  /\ [](\A t \in EmulatorTables :
          /\ \A i, j \in 1..Len(mem[t]) : i < j => mem[t][i].id < mem[t][j].id
          /\ \A id \in IdsIn(mem, t) : id < mem.ids[t])
  /\ [][\A t \in EmulatorTables :
          /\ mem'.ids[t] >= mem.ids[t]
          /\ \A id \in IdsIn(mem', t) \ IdsIn(mem, t) : id >= mem.ids[t]]_vars

\* a file was inserted, deleted, and a file inserted again: the second row
\* has id 2
C32_Witness ==
  /\ served = 3
  /\ req.sql = FileSql.InsertFileStmt
  /\ Len(mem.files) = 1
  /\ mem.files[1].id = 2
  /\ mem.ids.files = 3

----------------------------------------------------------------------------
(* Category requests in flight: POST /create-category, the bot's reply with a
   category name, POST /delete-category and the form upload, one step per
   awaited statement, so that two requests interleave between their awaits.
   With no store bound each request works on its own emulator. *)

MaxFlightRequests == 3   \* requests per behaviour

\* a request slot nothing runs in
FlightIdle ==
  [kind |-> "none",              \* none | create | reply | delete | upload
   pc |-> "idle",                \* the await the request is at
   name |-> "",                  \* categoryName, trimmed
   id |-> JsNum(0),              \* the id a delete-category request names
   category |-> NullId,          \* formData.get('category') of an upload
   m |-> NewEmulator,            \* the emulator of the request
   defaultCategoryId |-> NullId, \* defaultCategoryId / defaultCategory.id
   found |-> NullId,             \* newCategory.id / finalCategoryId
   status |-> 0,                 \* the status of the answer
   outcome |-> "none",           \* how the request ended
   held |-> FALSE,               \* history: the lookup or the insert of the request
                                 \* ran while the store held a category of its name
   met |-> FALSE]                \* history: another request was in flight with it

\* a statement the store refuses for a foreign key: a files row or a
\* user_settings row would name a category that is not there, or a category
\* that rows name would go
RefusedByForeignKey(d, sql, params) ==
  LET known(id) == id = NullId \/ \E i \in 1..Len(d.categories) : d.categories[i].id = id
      settingOf(chatId) == \E i \in 1..Len(d.user_settings) : d.user_settings[i].chat_id = chatId
  IN  CASE sql = FileSql.InsertFileStmt -> ~known(params[9])
        [] sql = SettingSql.InsertSettingStmt -> ~known(params[3])
        [] sql = SettingSql.UpdateSettingStorageAndCategory ->
             settingOf(params[3]) /\ ~known(params[2])
        [] sql = SettingSql.UpdateSettingCategoryClearWaiting ->
             settingOf(params[2]) /\ ~known(params[1])
        [] sql = CategorySql.DeleteCategoryById ->
             \/ \E i \in 1..Len(d.files) : d.files[i].category_id = Number(params[1])
             \/ \E i \in 1..Len(d.user_settings) :
                  d.user_settings[i].current_category_id = Number(params[1])
        [] OTHER -> FALSE

\* a run() whose store takes a second category of a name it holds
FlightRunNoUnique(st, sql, params) ==
  IF st.kind = "d1" /\ sql = CategorySql.InsertCategoryStmt
  THEN [st |-> D1(InsertCategory(st.s, params[1])), meta |-> st.s.seq.categories + 1,
        error |-> FALSE]
  ELSE Run(st, sql, params)

\* run() on a store whose REFERENCES clauses (lines 71, 87) are enforced when
\* env.foreignKeys: the emulator has none, and a column that verification
\* added with ALTER TABLE ... ADD COLUMN category_id INTEGER has none either
FlightRun(st, sql, params) ==
  IF st.kind = "d1" /\ env.foreignKeys /\ RefusedByForeignKey(st.s, sql, params)
  THEN [st |-> st, meta |-> 0, error |-> TRUE]
  ELSE Run(st, sql, params)

\* the request ends with this answer
FlightEnd(f, status, outcome) ==
  [f EXCEPT !.pc = "done", !.status = status, !.outcome = outcome]

\* handleCreateCategoryRequest from its first statement on
createCategoryStep(st, f, now) ==
  CASE f.pc = "lookup" ->
         Val({[st |-> r.st,
               f |-> IF r.row # NoRow THEN FlightEnd(f, 400, "exists")
                     ELSE [f EXCEPT !.pc = "insert"]] :
                r \in {FirstRow(st, CategorySql.SelectCategoryIdByName, <<f.name>>)}})
    [] f.pc = "insert" ->
         Val({[st |-> r.st,
               f |-> IF r.error THEN FlightEnd(f, 500, "failed")
                     ELSE [f EXCEPT !.pc = "reread"]] :
                r \in {FlightRun(st, CategorySql.InsertCategoryStmt, <<f.name, now>>)}})
    [] OTHER ->
         Val({[st |-> r.st,
               f |-> IF r.row = NoRow THEN FlightEnd(f, 500, "failed")
                     ELSE FlightEnd([f EXCEPT !.found = r.row.id], 200, "created")] :
                r \in {FirstRow(st, CategorySql.SelectCategoryIdByName, <<f.name>>)}})

\* handleTelegramWebhook for a text message: the settings row of the chat
\* (taken as one step), then the reply to 'new_category' (lines 885-903)
replyCategoryStep(st, f, now) ==
  CASE f.pc = "setting" ->
         Val({[st |-> u.st,
               f |-> IF u.userSetting.waiting_for = "new_category"
                     THEN [f EXCEPT !.pc = "lookup"]
                     ELSE FlightEnd(f, 200, "ignored")] :
                u \in {userSettingOf(st, OwnerChat, now)}})
    [] f.pc = "lookup" ->
         Val({[st |-> r.st,
               f |-> IF r.row # NoRow THEN [f EXCEPT !.pc = "clear", !.outcome = "exists"]
                     ELSE [f EXCEPT !.pc = "insert"]] :
                r \in {FirstRow(st, CategorySql.SelectCategoryIdByName, <<f.name>>)}})
    [] f.pc = "insert" ->
         Val({[st |-> r.st,
               f |-> IF r.error THEN [f EXCEPT !.pc = "clear", !.outcome = "failed"]
                     ELSE [f EXCEPT !.pc = "reread"]] :
                r \in {FlightRun(st, CategorySql.InsertCategoryStmt, <<f.name, now>>)}})
    [] f.pc = "reread" ->
         Val({[st |-> r.st,
               f |-> IF r.row = NoRow THEN [f EXCEPT !.pc = "clear", !.outcome = "failed"]
                     ELSE [f EXCEPT !.pc = "assign", !.found = r.row.id]] :
                r \in {FirstRow(st, CategorySql.SelectCategoryIdByName, <<f.name>>)}})
    [] f.pc = "assign" ->
         Val({[st |-> r.st,
               f |-> [f EXCEPT !.pc = "clear",
                               !.outcome = IF r.error THEN "failed" ELSE "created"]] :
                r \in {FlightRun(st, SettingSql.UpdateSettingCategoryClearWaiting,
                                 <<f.found, OwnerChat>>)}})
    [] OTHER ->
         Val({[st |-> r.st, f |-> FlightEnd(f, 200, f.outcome)] :
                r \in {FlightRun(st, SettingSql.ClearSettingWaiting, <<OwnerChat>>)}})

\* handleDeleteCategoryRequest from its first statement on
deleteCategoryStep(st, f, now) ==
  CASE f.pc = "isdefault" ->
         Val({[st |-> r.st,
               f |-> IF r.row # NoRow THEN FlightEnd(f, 403, "default")
                     ELSE [f EXCEPT !.pc = "category"]] :
                r \in {isDefaultCategory(st, f.id)}})
    [] f.pc = "category" ->
         Val({[st |-> r.st,
               f |-> IF r.row = NoRow THEN FlightEnd(f, 404, "not-found")
                     ELSE [f EXCEPT !.pc = "default"]] :
                r \in {FirstRow(st, CategorySql.SelectCategoryNameById, <<f.id>>)}})
    [] f.pc = "default" ->
         Val({[st |-> r.st,
               f |-> IF r.row = NoRow THEN [f EXCEPT !.pc = "mkdefault"]
                     ELSE [f EXCEPT !.pc = "files", !.defaultCategoryId = r.row.id]] :
                r \in {FirstRow(st, CategorySql.SelectCategoryIdByName,
                                <<DefaultCategoryName>>)}})
    [] f.pc = "mkdefault" ->
         Val({[st |-> r.st,
               f |-> IF r.error THEN FlightEnd(f, 500, "failed")
                     ELSE [f EXCEPT !.pc = "files",
                                    !.defaultCategoryId =
                                      defaultCategoryIdOf(NoRow, r)]] :
                r \in {FlightRun(st, CategorySql.InsertCategoryStmt,
                                 <<DefaultCategoryName, now>>)}})
    [] f.pc = "files" ->
         Val({[st |-> r.st,
               f |-> IF r.error THEN FlightEnd(f, 500, "failed")
                     ELSE [f EXCEPT !.pc = "settings"]] :
                r \in {IF f.defaultCategoryId # NullId
                       THEN FlightRun(st, CategorySql.UpdateFilesCategory,
                                      <<JsNum(f.defaultCategoryId), f.id>>)
                       ELSE FlightRun(st, CategorySql.UpdateFilesCategoryNull, <<f.id>>)}})
    [] f.pc = "settings" ->
         Val({[st |-> r.st,
               f |-> IF r.error THEN FlightEnd(f, 500, "failed")
                     ELSE [f EXCEPT !.pc = "remove"]] :
                r \in {IF f.defaultCategoryId # NullId
                       THEN FlightRun(st, CategorySql.UpdateSettingsCategory,
                                      <<JsNum(f.defaultCategoryId), f.id>>)
                       ELSE FlightRun(st, CategorySql.UpdateSettingsCategoryNull, <<f.id>>)}})
    [] OTHER ->
         Val({[st |-> r.st,
               f |-> IF r.error THEN FlightEnd(f, 500, "failed")
                     ELSE FlightEnd(f, 200, "deleted")] :
                r \in {FlightRun(st, CategorySql.DeleteCategoryById, <<f.id>>)}})

\* handleUploadRequest (POST) from its first statement on, for a file that
\* goes to the bucket; the put is the step "store"
uploadStep(st, f, now, name) ==
  CASE f.pc = "default" ->
         Val({[st |-> r.st,
               f |-> IF r.row = NoRow THEN [f EXCEPT !.pc = "mkdefault"]
                     ELSE [f EXCEPT !.pc = "setting", !.defaultCategoryId = r.row.id]] :
                r \in {FirstRow(st, CategorySql.SelectCategoryIdByName,
                                <<DefaultCategoryName>>)}})
    [] f.pc = "mkdefault" ->
         Val({[st |-> r.st,
               f |-> [f EXCEPT !.pc = "setting",
                               !.defaultCategoryId =
                                 IF r.error THEN f.category
                                 ELSE defaultCategoryIdOf(NoRow, r)]] :
                r \in {FlightRun(st, CategorySql.InsertCategoryStmt,
                                 <<DefaultCategoryName, now>>)}})
    [] f.pc = "setting" ->
         Val({Val({[st |-> r.st,
                    f |-> IF r.error THEN FlightEnd(f, 500, "failed")
                          ELSE [f EXCEPT !.pc = "store", !.found = finalCategoryId]] :
                     r \in {FlightRun(st, SettingSql.UpdateSettingStorageAndCategory,
                                      <<"r2", finalCategoryId, OwnerChat>>)}}) :
                finalCategoryId \in {IF f.category # NullId THEN f.category
                                      ELSE f.defaultCategoryId}})
    [] f.pc = "store" -> [st |-> st, f |-> [f EXCEPT !.pc = "insert"]]
    [] OTHER ->
         Val({[st |-> r.st,
               f |-> IF r.error THEN FlightEnd(f, 500, "failed")
                     ELSE FlightEnd(f, 200, "uploaded")] :
                r \in {FlightRun(st, FileSql.InsertFileStmt,
                                 <<UrlOf(KeyOf(now, ToLowerCase(ExtOf(name)))),
                                   KeyOf(now, ToLowerCase(ExtOf(name))), -1, now, name, 1,
                                   getContentType(ToLowerCase(ExtOf(name))), "r2",
                                   f.found>>)}})

\* config.database of the request in a slot
FlightStore(f) == IF env.database THEN D1(db) ELSE Emulator(f.m)

\* the categories of a store hold this name
HoldsName(st, name) ==
  \E i \in 1..Len(st.s.categories) : st.s.categories[i].name = name

\* a request is in flight in the slot
InFlightAt(i) == boot[i].pc \notin {"idle", "done"}

\* the request of slot i is received while the other slot is as it is
FlightStart(i, f) ==
  /\ boot[i].pc \in {"idle", "done"}
  /\ served < MaxFlightRequests
  /\ served' = served + 1
  /\ boot' = [j \in 1..2 |->
                IF j = i THEN [f EXCEPT !.met = InFlightAt(3 - i)]
                ELSE [boot[j] EXCEPT !.met = @ \/ InFlightAt(j)]]
  /\ UNCHANGED <<env, db, bucket, tg, clock, uploads, uploaded, req, resp, mem>>

\* POST /create-category with a name that is not blank
BeginCreate(i, name) ==
  FlightStart(i, [FlightIdle EXCEPT !.kind = "create", !.pc = "lookup", !.name = Trim(name)])

\* POST /webhook with a text message of the owner
BeginReply(i, name) ==
  FlightStart(i, [FlightIdle EXCEPT !.kind = "reply", !.pc = "setting", !.name = Trim(name)])

\* POST /delete-category with a valid id
BeginDeleteCategory(i, id) ==
  FlightStart(i, [FlightIdle EXCEPT !.kind = "delete", !.pc = "isdefault", !.id = id])

\* POST /upload with a file and a category, or none
BeginUpload(i, category) ==
  FlightStart(i, [FlightIdle EXCEPT !.kind = "upload", !.pc = "default",
                                    !.category = category])

\* the request of slot i goes on to its next await
FlightStep(i, out) ==
  /\ boot' = [boot EXCEPT ![i] =
                [out.f EXCEPT !.m = IF env.database THEN @ ELSE out.st.s,
                              !.held = @ \/ (boot[i].kind \in {"create", "reply"}
                                              /\ boot[i].pc \in {"lookup", "insert"}
                                              /\ HoldsName(FlightStore(boot[i]), boot[i].name))]]
  /\ db' = IF env.database THEN out.st.s ELSE db
  /\ UNCHANGED <<env, tg, clock, uploads, served, uploaded, req, resp, mem>>

FlightCreate(i) ==
  /\ boot[i].kind = "create"
  /\ InFlightAt(i)
  /\ bucket' = bucket
  /\ \E out \in {createCategoryStep(FlightStore(boot[i]), boot[i], clock)} : FlightStep(i, out)

FlightReply(i) ==
  /\ boot[i].kind = "reply"
  /\ InFlightAt(i)
  /\ bucket' = bucket
  /\ \E out \in {replyCategoryStep(FlightStore(boot[i]), boot[i], clock)} : FlightStep(i, out)

FlightDelete(i) ==
  /\ boot[i].kind = "delete"
  /\ InFlightAt(i)
  /\ bucket' = bucket
  /\ \E out \in {deleteCategoryStep(FlightStore(boot[i]), boot[i], clock)} : FlightStep(i, out)

FlightUpload(i) ==
  /\ boot[i].kind = "upload"
  /\ InFlightAt(i)
  /\ bucket' = IF boot[i].pc = "store" /\ env.bucket
               THEN BucketPut(bucket, KeyOf(clock, "mp4"), BodyOf(i, 1), getContentType("mp4"))
               ELSE bucket
  /\ \E out \in {uploadStep(FlightStore(boot[i]), boot[i], clock, <<90, "MP4">>)} :
       FlightStep(i, out)

\* the owner presses 'create category': the chat now waits for a name
FlightButton ==
  /\ env.database
  /\ WaitingFor(db) # "new_category"
  /\ \E st \in {webhookCallback(D1(db), OwnerChat, "create_category", 0, clock)} :
       db' = st.s
  /\ UNCHANGED <<env, bucket, tg, clock, uploads, served, uploaded, req, resp, boot, mem>>

InitFlight ==
  /\ env \in {[bucket |-> TRUE, tg |-> TRUE, database |-> d, foreignKeys |-> k] :
                d \in BOOLEAN, k \in BOOLEAN}
  /\ db = BootstrappedDb
  /\ bucket = EmptyBucket
  /\ tg = <<>>
  /\ clock = 1
  /\ uploads = 0
  /\ served = 0
  /\ uploaded = {}
  /\ req = UploadReq
  /\ resp = NoResponse
  /\ boot = <<FlightIdle, FlightIdle>>
  /\ mem = NewEmulator

NextFlight ==
  \/ \E i \in 1..2, name \in {OtherCategoryName, PaddedDefault} : BeginCreate(i, name)
  \/ \E i \in 1..2, name \in {OtherCategoryName, PaddedDefault} : BeginReply(i, name)
  \/ \E i \in 1..2 : BeginDeleteCategory(i, JsNum(2))
  \/ \E i \in 1..2, category \in {NullId, 2} : BeginUpload(i, category)
  \/ \E i \in 1..2 : FlightCreate(i)
  \/ \E i \in 1..2 : FlightReply(i)
  \/ \E i \in 1..2 : FlightDelete(i)
  \/ \E i \in 1..2 : FlightUpload(i)
  \/ FlightButton

SpecFlight == InitFlight /\ [][NextFlight]_vars

----------------------------------------------------------------------------
(* Properties of category requests in flight *)

\* no two rows of the list have one name
NamesDistinct(categories) ==
  \A i, j \in 1..Len(categories) : i # j => categories[i].name # categories[j].name

\* the request of slot i took a step
SteppedAt(i) == boot'[i].pc # boot[i].pc /\ InFlightAt(i)

\* the categories of the store of the request in slot i
CategoriesAt(i) == FlightStore(boot[i]).s.categories

\* C33: however create-category requests and replies with a category name
\* interleave, no store holds two categories of one name; and a lookup or an
\* insert of such a request that runs while the store holds a category of its
\* name adds no row and ends the creation: the request is answered 400 or
\* 500, the reply is answered with 'exists' or 'failed'.
C33_CategoryNamesUnique ==
  /\ [](\A i \in 1..2 : NamesDistinct(CategoriesAt(i)))
  /\ [][\A i \in 1..2 :
          SteppedAt(i) /\ boot[i].kind \in {"create", "reply"}
            /\ boot[i].pc \in {"lookup", "insert"}
            /\ HoldsName(FlightStore(boot[i]), boot[i].name)
          => /\ Len(CategoriesAt(i)') = Len(CategoriesAt(i))
             /\ boot'[i].outcome \in {"exists", "failed"}
             /\ (boot[i].kind = "create"
                   => boot'[i].pc = "done" /\ boot'[i].status \in {400, 500})]_vars

\* two requests for the name 'other' were in flight together, through the
\* endpoint and through the bot: both passed the lookup, one created the
\* category and the insert of the other was refused
C33_Witness ==
  /\ \E i \in 1..2 :
       /\ boot[i].kind = "create" /\ boot[3 - i].kind = "reply"
       /\ boot[1].pc = "done" /\ boot[2].pc = "done"
       /\ boot[1].met /\ boot[2].met
       /\ boot[1].held \/ boot[2].held
       /\ boot[1].name = OtherCategoryName /\ boot[2].name = OtherCategoryName
       /\ {boot[1].outcome, boot[2].outcome} = {"created", "failed"}
  /\ Cardinality({k \in 1..Len(db.categories) : db.categories[k].name = OtherCategoryName}) = 1

\* a files row of the store names a category that the store does not hold
DanglingCategory(d) ==
  \E k \in 1..Len(d.files) :
    /\ d.files[k].category_id # NullId
    /\ \A c \in 1..Len(d.categories) : d.categories[c].id # d.files[k].category_id

\* a delete-category request that found its category and an upload that names
\* the same category were in flight together and both have finished
DeleteMetUpload ==
  \E i \in 1..2 :
    /\ boot[i].kind = "delete" /\ boot[3 - i].kind = "upload"
    /\ boot[1].pc = "done" /\ boot[2].pc = "done"
    /\ boot[1].met /\ boot[2].met
    /\ boot[i].outcome \in {"deleted", "failed"}
    /\ boot[3 - i].category = Number(boot[i].id)

\* C34: once a delete-category request for a category and an upload into that
\* category that ran together have both finished, no files row of the bound
\* store names a category that does not exist.
C34_NoDanglingCategoryAfterRace ==
  env.database /\ DeleteMetUpload => ~DanglingCategory(db)

----------------------------------------------------------------------------
(* The three upload paths with a blob store that may fail: the form upload,
   the PUT upload, and a file sent to the bot *)

\* a message with a file, with a bucket.put that throws when ~putOk (the catch
\* of handleMediaUpload inserts nothing) and a transport that refuses the
\* first `refusals` sends
webhookMediaStored(w0, chatId, fileName, mimeType, body, now, putOk, refusals) ==
  Val({IF u.userSetting.storage_type = "r2" /\ env.bucket /\ ~putOk
       THEN Sent([w0 EXCEPT !.d = WithDefault(u.st.s)], <<>>, FALSE)
       ELSE handleMediaUploadSends([w0 EXCEPT !.d = u.st.s], u.userSetting, chatId, fileName,
                                   mimeType, body, now, refusals) :
         u \in {userSettingOf(D1(w0.d), chatId, now)}})

\* POST /webhook with a file of the owner
MediaStore(fileName, mimeType, putOk, refusals) ==
  \E out \in {webhookMediaStored(World(db, bucket, tg), OwnerChat, fileName, mimeType,
                                 BodyOf(uploads + 1, 1), clock, putOk, refusals)} :
    SendStep("webhook-media", refusals, out)

InitStore ==
  /\ env \in [bucket : BOOLEAN, tg : {TRUE}, database : {TRUE}]
  /\ db = BootstrappedDb
  /\ bucket = EmptyBucket
  /\ tg = <<>>
  /\ clock = 1
  /\ uploads = 0
  /\ served = 0
  /\ uploaded = {}
  /\ req = UploadReq
  /\ resp = NoResponse
  /\ boot = BootIdle
  /\ mem = NewEmulator

NextStore ==
  \/ \E name \in FileNames, st \in StorageTypeInputs, putOk \in BOOLEAN, sends \in 0..2 :
       UploadForm(name, 1, st, NullId, putOk, sends)
  \/ \E name \in FileNames \cup {NoName}, st \in StorageTypeInputs, putOk \in BOOLEAN,
        sendOk \in BOOLEAN :
       UploadPut(name, 1, st, NullId, 1, putOk, sendOk)
  \/ \E name \in BotFileNames, mimeType \in MimeInputs, putOk \in BOOLEAN, refusals \in 0..2 :
       MediaStore(name, mimeType, putOk, refusals)
  \/ ChatButton("switch_storage")
  \/ Tick

SpecStore == InitStore /\ [][NextStore]_vars

----------------------------------------------------------------------------
(* Properties of the upload paths *)

\* the locator of a files row is in the blob store the row was written to: a
\* key of the bucket (message_id -1), or the file id of a message of the
\* transport
LocatorWritten(r, b, t) ==
  IF r.message_id = -1 THEN r.fileId \in DOMAIN b
  ELSE r.message_id \in 1..Len(t) /\ r.fileId = TgFileId(r.message_id)

\* the step is an upload
UploadStep == uploads' = uploads + 1

\* C35: every files row names a locator that its blob store holds; an upload
\* that adds a files row wrote that locator in the same request (the key is
\* new in the bucket or its object changed, or the transport took a message);
\* and an upload that leaves bucket and transport as they were adds no row.
C35_RecordAfterConfirmedWrite ==
  /\ [](\A k \in 1..Len(db.files) : LocatorWritten(db.files[k], bucket, tg))
  /\ [][UploadStep /\ Len(db'.files) > Len(db.files)
         => /\ Len(db'.files) = Len(db.files) + 1
            /\ \E r \in {db'.files[Len(db'.files)]} :
                 IF r.message_id = -1
                 THEN /\ r.fileId \in DOMAIN bucket'
                      /\ (r.fileId \in DOMAIN bucket => bucket'[r.fileId] # bucket[r.fileId])
                 ELSE /\ Len(tg') = Len(tg) + 1
                      /\ r.message_id = Len(tg')]_vars
  /\ [][UploadStep /\ bucket' = bucket /\ tg' = tg => db'.files = db.files]_vars

\* the bot was sent a file while the put failed, and then one that the
\* transport refused twice: neither left a row; the form upload before them did
C35_Witness ==
  /\ req.kind = "webhook-media"
  /\ ~req.ok
  /\ uploads = 2
  /\ Len(db.files) = 1
  /\ db.files[1].fileId \in DOMAIN bucket

----------------------------------------------------------------------------
(* The bootstrap and the handler of one request *)

\* the handler of the request in progress runs in this step
HandlerRuns == boot.pc = "route" /\ boot'.handlerRan /\ boot'.n = boot.n

\* C36: the file handler and the handler of every route other than /login,
\* /config, /bing and /webhook run only after initDatabase has returned true
\* in the same request (on the bound store after a probe of this request, on
\* the emulator after its init()); a request whose initDatabase threw runs no
\* handler; for the four public routes the bootstrap is skipped: the handler
\* runs with no initDatabase begun and the store untouched.
C36_HandlerAfterBootstrap ==
  /\ [][HandlerRuns /\ boot.route \in {"route", "file"}
          => /\ boot.result = "ok"
             /\ IF env.database THEN boot.probes >= 1 /\ boot.attempt \in 1..maxRetries
                ELSE mem.initialized]_vars
  /\ [](boot.result = "throw" => ~boot.handlerRan)
  /\ [][HandlerRuns /\ boot.route = "public"
          => boot.result = "none" /\ boot.probes = 0 /\ boot.attempt = 0 /\ db = boot.snap]_vars

\* a request for a route got its handler after the third attempt of the
\* bootstrap succeeded, in a deployment whose earlier request failed
C36_Witness ==
  /\ boot.handlerRan
  /\ boot.route = "route"
  /\ boot.result = "ok"
  /\ boot.attempt = 3
  /\ boot.n = 2
  /\ Len(boot.runs) = 2
  /\ ~boot.runs[1].ok

----------------------------------------------------------------------------
(* The webhook and the chats it listens to *)

MaxGateRequests == 3     \* updates per behaviour

StrangerChat == "stranger"          \* a chat id that is not in config.tgChatId
ChatTypes == {"private", "group", "supergroup"}

\* an update of the webhook.  `chat` is what the handler takes as chatId:
\* message.chat.id of a message, callback_query.from.id of a pressed button
\* (lines 835, 845).  A message carries a text or a file.
MessageUpdate(type, chat, text, file) ==
  [type |-> type, chat |-> chat, file |-> file, kind |-> "message", text |-> text,
   data |-> NullText]
CallbackUpdate(from, data) ==
  [type |-> NullText, chat |-> from, file |-> NoName, kind |-> "callback_query",
   text |-> NameText(NullText), data |-> data]
OtherUpdate ==
  [type |-> NullText, chat |-> NullText, file |-> NoName, kind |-> "other",
   text |-> NameText(NullText), data |-> NullText]

\* a check that lets every chat through
chatAllowedAlways(tgChatId, chatId) == TRUE

\* the negation of
\* `config.tgChatId && config.tgChatId.length > 0 && !config.tgChatId.includes(chatId)`
chatAllowed(tgChatId, chatId) == tgChatId = {} \/ chatId \in tgChatId

\* handleTelegramWebhook (lines 829-1229): the world after the update
handleTelegramWebhook(w0, update, now) ==
  IF update.kind = "other" THEN w0
  ELSE IF update.kind = "message" /\ update.type \in {"group", "supergroup"} THEN w0
  ELSE IF ~chatAllowed(env.tgChatId, update.chat) THEN w0
  ELSE IF update.kind = "callback_query"
  THEN [w0 EXCEPT !.d = webhookCallback(D1(w0.d), update.chat, update.data, 0, now).s]
  ELSE IF update.file # NoName
  THEN webhookMedia(w0, update.chat, update.file, BodyOf(uploads + 1, 1), now)
  ELSE webhookMessage(w0, update.chat, update.text, TRUE, TRUE, now).w

\* POST /webhook
GateUpdate(update) ==
  /\ served < MaxGateRequests
  /\ update.file # NoName => uploads < MaxChatUploads
  /\ \E w \in {handleTelegramWebhook(World(db, bucket, tg), update, clock)} :
       /\ db' = w.d
       /\ bucket' = w.b
       /\ tg' = w.t
       /\ uploads' = IF update.file # NoName /\ w # World(db, bucket, tg)
                     THEN uploads + 1 ELSE uploads
  /\ served' = served + 1
  /\ req' = [kind |-> "webhook", update |-> update]
  /\ resp' = Response(200, <<>>, {}, "OK")
  /\ uploaded' = uploaded \cup {update}
  /\ UNCHANGED <<env, clock, boot, mem>>

GateMessage(type, chat, text, file) == GateUpdate(MessageUpdate(type, chat, text, file))
GateCallback(from, data) == GateUpdate(CallbackUpdate(from, data))
GateOther == GateUpdate(OtherUpdate)

InitGate ==
  /\ env \in [bucket : {TRUE}, tg : {TRUE}, database : {TRUE},
              tgChatId : {{}, {OwnerChat}}]
  /\ db = BootstrappedDb
  /\ bucket = EmptyBucket
  /\ tg = <<>>
  /\ clock = 1
  /\ uploads = 0
  /\ served = 0
  /\ uploaded = {}
  /\ req = [kind |-> "webhook", update |-> OtherUpdate]
  /\ resp = NoResponse
  /\ boot = BootIdle
  /\ mem = NewEmulator

NextGate ==
  \/ \E type \in ChatTypes, chat \in {OwnerChat, StrangerChat},
        content \in {<<NameText(OtherCategoryName), NoName>>} \cup
                    {<<NameText(NullText), f>> : f \in BotFileNames} :
       GateMessage(type, chat, content[1], content[2])
  \/ \E from \in {OwnerChat, StrangerChat}, data \in ChatButtons \cup {"switch_storage"} :
       GateCallback(from, data)
  \/ GateOther

SpecGate == InitGate /\ [][NextGate]_vars

\* C37: an update whose chat id is not in the non-empty list of allowed chat
\* ids, and a message of a group or supergroup chat whatever its chat id,
\* leaves every table of the metadata store as it was: no user_settings row is
\* created and no category or file row is created, changed or deleted.
C37_RefusedUpdateChangesNothing ==
  [][/\ served' = served + 1
     /\ \/ /\ req'.update.kind \in {"message", "callback_query"}
           /\ env.tgChatId # {}
           /\ req'.update.chat \notin env.tgChatId
        \/ /\ req'.update.kind = "message"
           /\ req'.update.type \in {"group", "supergroup"}
     => db' = db]_vars

\* the owner has pressed a button, which made their user_settings row; a
\* stranger has pressed one and sent a file, and the owner has written in a
\* supergroup: the store holds the owner's row and nothing else
C37_Witness ==
  /\ env.tgChatId = {OwnerChat}
  /\ served = 3
  /\ CallbackUpdate(OwnerChat, "create_category") \in uploaded
  /\ CallbackUpdate(StrangerChat, "create_category") \in uploaded
  /\ MessageUpdate("supergroup", OwnerChat, NameText(OtherCategoryName), NoName) \in uploaded
  /\ Len(db.user_settings) = 1
  /\ db.user_settings[1].chat_id = OwnerChat
  /\ db.user_settings[1].waiting_for = "new_category"
  /\ Len(db.categories) = 1

----------------------------------------------------------------------------
(* File requests to a deployment that answers on two hosts *)

MaxHostRequests == 3      \* requests per behaviour
MaxHostFiles == 2         \* files the store holds

MirrorHost == "mirror"    \* a second host name the deployment answers on
Hosts == {Domain, MirrorHost}

\* config.domain: env.DOMAIN || request.headers.get("host"); e.domain is env.DOMAIN
configDomain(e, host) == IF e.domain # NullText THEN e.domain ELSE host

\* a deployment whose config.domain is the host of no stored url
fileRequestElsewhere(host, d, b, t, e, path, fault) ==
  handleFileRequestAt("elsewhere", d, b, t, e, path, NoRange, fault)

\* fetch for a path that is no route, sent to this host
fileRequestTo(host, d, b, t, e, path, fault) ==
  handleFileRequestAt(configDomain(e, host), d, b, t, e, path, NoRange, fault)

\* the world after the k-th form upload, sent to `host` with this storage
\* type at time k: the files row, and the object or the message it names
HostedUpload(w, k, host, storageType) ==
  LET name == <<89 + k, "MP4">>
      body == BodyOf(k, 1)
      ext == ToLowerCase(ExtOf(name))
      key == KeyOf(k, ext)
      row(fileId, messageId) ==
        [url |-> [host |-> configDomain(env, host), path |-> key], fileId |-> fileId,
         message_id |-> messageId, file_name |-> name, file_size |-> Len(body),
         mime_type |-> getContentType(ext), storage_type |-> storageType,
         category_id |-> 1]
  IN  IF storageType = "r2"
      THEN World(InsertFile(w.d, row(key, -1)),
                 BucketPut(w.b, key, body, getContentType(ext)), w.t)
      ELSE World(InsertFile(w.d, row(TgFileId(Len(w.t) + 1), Len(w.t) + 1)),
                 w.b, TgSend(w.t, body))

\* the worlds a deployment holds after k such uploads
RECURSIVE HostedWorldsAfter(_)
HostedWorldsAfter(k) ==
  IF k = 0 THEN {World(BootstrappedDb, EmptyBucket, <<>>)}
  ELSE {HostedUpload(w, k, h, st) :
          w \in HostedWorldsAfter(k - 1), h \in Hosts, st \in StorageTypeInputs}

\* the worlds a deployment holds after one upload or more
HostedWorlds == UNION {HostedWorldsAfter(k) : k \in 1..MaxHostFiles}

HostReq(host, path, follows) ==
  [kind |-> "file", path |-> path, range |-> NoRange, host |-> host, follows |-> follows]

\* GET https://<host>/<path>
HostRequest(host, path, fault) ==
  /\ served < MaxHostRequests
  /\ served' = served + 1
  /\ req' = HostReq(host, path, FALSE)
  /\ resp' = fileRequestTo(host, db, bucket, tg, env, path, fault)
  /\ UNCHANGED <<env, db, bucket, tg, clock, uploads, uploaded, boot, mem>>

\* the client follows the 302 it was answered with
FollowRedirect(fault) ==
  /\ served < MaxHostRequests
  /\ resp.status = 302
  /\ resp.location.host \in Hosts
  /\ served' = served + 1
  /\ req' = HostReq(resp.location.host, resp.location.path, TRUE)
  /\ resp' = fileRequestTo(resp.location.host, db, bucket, tg, env, resp.location.path, fault)
  /\ UNCHANGED <<env, db, bucket, tg, clock, uploads, uploaded, boot, mem>>

InitHost ==
  /\ env \in [bucket : {TRUE}, tg : {TRUE}, database : {TRUE}, domain : {NullText, Domain}]
  /\ \E w \in HostedWorlds : db = w.d /\ bucket = w.b /\ tg = w.t
  /\ clock = MaxHostFiles + 1
  /\ uploads = Len(db.files)
  /\ served = 0
  /\ uploaded = {}
  /\ req = HostReq(Domain, NoName, FALSE)
  /\ resp = NoResponse
  /\ boot = BootIdle
  /\ mem = NewEmulator

NextHost ==
  \/ \E host \in Hosts, path \in PathInputs, fault \in FetchFaults :
       HostRequest(host, path, fault)
  \/ \E fault \in FetchFaults : FollowRedirect(fault)

SpecHost == InitHost /\ [][NextHost]_vars

----------------------------------------------------------------------------
(* The emulator of a request *)

\* what the first statement on a new emulator works on: the default category
\* under id 1, no files, no user settings
SeededEmulator ==
  [initialized |-> TRUE,
   categories |-> <<[id |-> 1, name |-> DefaultCategoryName]>>,
   files |-> <<>>, user_settings |-> <<>>,
   ids |-> [categories |-> 2, files |-> 1, user_settings |-> 1]]

\* a request was served in this step
RequestServed == served' = served + 1 \/ uploads' = uploads + 1

\* C39: without a bound store the handlers of every request, whatever earlier
\* requests left in their emulators, start from an emulator whose first
\* statement finds exactly the default category and no files or user
\* settings (for the public paths, which skip initDatabase, the emulator is
\* seeded by that first statement); so a request leaves at most one category
\* beside the default, one file and one user_settings row behind, and a
\* create-category for a name that an earlier request created succeeds again.
C39_NewEmulatorPerRequest ==
  /\ [](~env.database
          => /\ StoreOfRequest = Emulator(SeededEmulator)
             /\ StoreOfPublicRequest.kind = "memory"
             /\ ensureInitialized(StoreOfPublicRequest.s) = SeededEmulator)
  /\ [][~env.database /\ RequestServed
          => /\ db' = db
             /\ Len(mem'.categories) <= 2
             /\ Len(mem'.files) <= 1
             /\ Len(mem'.user_settings) <= 1
             /\ mem'.ids.categories <= 3 /\ mem'.ids.files <= 2 /\ mem'.ids.user_settings <= 2
             /\ (mem'.initialized => mem'.categories[1] = SeededEmulator.categories[1])
             /\ (req'.kind = "create-category" /\ req'.arg = OtherCategoryName
                   => resp'.status = 200 /\ Len(mem'.categories) = 2)]_vars

\* an upload and a create-category have left a file and a category in their
\* emulators; the next create-category for the same name succeeded and its
\* emulator holds no file
C39_Witness ==
  /\ ~env.database
  /\ uploads = 1
  /\ served = 2
  /\ req.kind = "create-category"
  /\ req.arg = OtherCategoryName
  /\ resp.status = 200
  /\ mem.files = <<>>
  /\ mem.user_settings = <<>>
  /\ Len(mem.categories) = 2

====
